---- MODULE Spec2Model ----
(***************************************************************************)
(* A model of esquilait, a read-only query engine over the SQLite file     *)
(* format: the varint codec, the record codec, the cell-to-row conversion, *)
(* the recursive B-tree walk Database::rows and the SELECT executor        *)
(* repl::run.                                                              *)
(*                                                                         *)
(* 64-bit machine words are sequences of 64 bits, most significant first,  *)
(* so that shifts and ors keep the width of the Rust integer types.  A     *)
(* byte is a number in 0..255 and a byte slice is a sequence of bytes.     *)
(***************************************************************************)
EXTENDS Integers, Sequences, FiniteSets, TLC

VARIABLES
    varintIn,    \* the value whose encoding, and the bytes after it, varint() is given
    varintOut,   \* what varint() returned for it, or NoCall
    recIn,       \* a cell: its kind, its row_id and its record (serial types, body)
    recOut,      \* what the record codec returned for it, or NoCall
    given,       \* the table the database file was written from, and its damage
    db,          \* the database file the REPL has loaded
    log          \* the statements run so far, each with what run did

vars == <<varintIn, varintOut, recIn, recOut, given, db, log>>

NoCall == [called |-> FALSE]

(***************************************************************************)
(* Machine words.                                                          *)
(***************************************************************************)
W64 == 64

Pow2(k) == 2 ^ k

\* The low w bits of the small number b, most significant first.
BitsOf(b, w) == [i \in 1..w |-> (b \div Pow2(w - i)) % 2]

\* `b as u64`: a byte (or a 7-bit group) zero-extended to 64 bits.
AsU64(b) == [i \in 1..W64 |-> IF i <= W64 - 8 THEN 0 ELSE BitsOf(b, 8)[i - (W64 - 8)]]

\* x << k on u64: the top k bits fall off.
Shl(x, k) == [i \in 1..W64 |-> IF i + k <= W64 THEN x[i + k] ELSE 0]

\* x | y on u64.
BitOr(x, y) == [i \in 1..W64 |-> IF x[i] = 1 \/ y[i] = 1 THEN 1 ELSE 0]

Zero64 == [i \in 1..W64 |-> 0]

\* A number of the model (below 2^30) as a u64.
NatWord(n) == [i \in 1..W64 |-> IF i <= W64 - 30 THEN 0 ELSE BitsOf(n, 30)[i - (W64 - 30)]]

(***************************************************************************)
(* sqlite/varint.rs                                                        *)
(***************************************************************************)
MaxHiBytes == 8

\* take_while_m_n(0, 8, |b| b >= 0x80): the length of the longest prefix of
\* at most eight bytes that all have the high bit set.
RECURSIVE HiPrefixLen(_, _)
HiPrefixLen(input, k) ==
    IF k < MaxHiBytes /\ k < Len(input) /\ input[k + 1] >= 128
    THEN HiPrefixLen(input, k + 1)
    ELSE k

\* for b in hibytes { ans = (ans << 7) | (b & 0x7f) as u64 }
RECURSIVE FoldHiBytes(_, _)
FoldHiBytes(hibytes, ans) ==
    IF hibytes = <<>> THEN ans
    ELSE FoldHiBytes(Tail(hibytes), BitOr(Shl(ans, 7), AsU64(Head(hibytes) % 128)))

\* The mutant of LastByte: the ninth byte treated like any terminator.
LastByteSevenBits(ans, last, nhi) == BitOr(Shl(ans, 7), AsU64(last % 128))

\* if hibytes.len() == 8 { (ans << 8) | last } else { (ans << 7) | (last & 0x7f) }
LastByte(ans, last, nhi) ==
    IF nhi = MaxHiBytes
    THEN BitOr(Shl(ans, 8), AsU64(last))
    ELSE BitOr(Shl(ans, 7), AsU64(last % 128))

\* varint(input): Ok((remaining input, value)) or the nom error of u8() on an
\* exhausted input.
varint(input) ==
    LET nhi == HiPrefixLen(input, 0)
        hibytes == SubSeq(input, 1, nhi)
        after == SubSeq(input, nhi + 1, Len(input))
        ans == FoldHiBytes(hibytes, Zero64)
    IN  IF after = <<>>
        THEN [ok |-> FALSE]
        ELSE [ok |-> TRUE,
              rest |-> Tail(after),
              val |-> LastByte(ans, Head(after), nhi)]

(***************************************************************************)
(* The canonical encoding of a u64 as a varint (the file format's writer,  *)
(* which the decoder is checked against): the shortest of 1..8 groups of   *)
(* seven bits, or, when the top eight bits are not all zero, eight groups  *)
(* of seven bits followed by one whole byte.                               *)
(***************************************************************************)
NumOf(bits) ==
    LET RECURSIVE go(_, _)
        go(i, acc) == IF i > Len(bits) THEN acc ELSE go(i + 1, 2 * acc + bits[i])
    IN  go(1, 0)

\* The number of significant bits of n (0 for zero).
SigBits(n) ==
    LET nz == {i \in 1..W64 : n[i] = 1}
    IN  IF nz = {} THEN 0 ELSE W64 + 1 - (CHOOSE i \in nz : \A j \in nz : i <= j)

Slice(n, from, to) == [i \in 1..(to - from + 1) |-> n[from + i - 1]]

EncodeVarint(n) ==
    IF SigBits(n) > 56
    THEN [j \in 1..9 |->
            IF j <= 8 THEN 128 + NumOf(Slice(n, 7 * (j - 1) + 1, 7 * j))
            ELSE NumOf(Slice(n, 57, 64))]
    ELSE LET k == IF SigBits(n) = 0 THEN 1 ELSE (SigBits(n) + 6) \div 7
         IN  [j \in 1..k |->
                (IF j < k THEN 128 ELSE 0)
                + NumOf(Slice(n, W64 - 7 * (k - j + 1) + 1, W64 - 7 * (k - j)))]

(***************************************************************************)
(* parsers/value.rs: Value.  An Integer holds an i64 and a Float an f64,   *)
(* both as their 64 bits; a Blob holds bytes and a Text characters (code   *)
(* points).                                                                *)
(***************************************************************************)
Null == [t |-> "Null"]
Integer(bits) == [t |-> "Integer", v |-> bits]
Float(bits) == [t |-> "Float", v |-> bits]
Blob(bytes) == [t |-> "Blob", v |-> bytes]
Text(chars) == [t |-> "Text", v |-> chars]

(***************************************************************************)
(* parsers/records.rs                                                      *)
(***************************************************************************)
\* The value of a serial type as a number.  A code of more than 30 bits is
\* cut to a number of that size with the same parity: it names a blob or a
\* text longer than any input of the model.
CodeNum(code) ==
    IF SigBits(code) <= 30 THEN NumOf(Slice(code, W64 - 29, W64))
    ELSE Pow2(30) + code[W64]

\* impl From<u64> for RecordCode.  The reserved codes 10 and 11 reach
\* unreachable!(), which panics.
RecordCodeFrom(code) ==
    LET n == CodeNum(code)
    IN  CASE n = 0 -> [tag |-> "Null"]
          [] n = 1 -> [tag |-> "I8"]
          [] n = 2 -> [tag |-> "I16"]
          [] n = 3 -> [tag |-> "I24"]
          [] n = 4 -> [tag |-> "I32"]
          [] n = 5 -> [tag |-> "I48"]
          [] n = 6 -> [tag |-> "I64"]
          [] n = 7 -> [tag |-> "F64"]
          [] n = 8 -> [tag |-> "Zero"]
          [] n = 9 -> [tag |-> "One"]
          [] n >= 12 /\ n % 2 = 0 -> [tag |-> "Blob", n |-> (n - 12) \div 2]
          [] n >= 13 /\ n % 2 = 1 -> [tag |-> "String", n |-> (n - 13) \div 2]
          [] OTHER -> [tag |-> "panic"]

\* The bits of a byte slice, most significant first.
RECURSIVE BitsOfBytes(_)
BitsOfBytes(bytes) ==
    IF bytes = <<>> THEN <<>> ELSE BitsOf(Head(bytes), 8) \o BitsOfBytes(Tail(bytes))

\* be_iN followed by n.into(): a big-endian two's complement number of
\* Len(bytes) bytes widened to i64.
SignExtend(bytes) ==
    LET b == BitsOfBytes(bytes)
    IN  [i \in 1..W64 |-> IF i <= W64 - Len(b) THEN b[1] ELSE b[i - (W64 - Len(b))]]

\* 0xff_ff_00_00_00_00_00_00
Mask48 == [i \in 1..W64 |-> IF i <= 16 THEN 1 ELSE 0]

\* for b in n { x = (x << 8) | (*b as u64) }
RECURSIVE FoldBytes(_, _)
FoldBytes(bytes, x) ==
    IF bytes = <<>> THEN x
    ELSE FoldBytes(Tail(bytes), BitOr(Shl(x, 8), AsU64(Head(bytes))))

\* The six bytes folded without the sign extension.
ParseI48Unsigned(n) == FoldBytes(n, Zero64)

\* The I48 arm: six bytes folded into a u64, the top sixteen bits set when
\* the first byte has its high bit set.
ParseI48(n) ==
    LET x == FoldBytes(n, Zero64)
    IN  IF n[1] >= 128 THEN BitOr(x, Mask48) ELSE x

\* String::from_utf8_lossy on bytes that are ASCII or not part of any
\* well-formed sequence (0x80..0xBF alone, 0xF8..0xFF): an ASCII byte is its
\* character, any other byte becomes U+FFFD.
ReplacementChar == 65533
Utf8Lossy(bytes) == [i \in 1..Len(bytes) |-> IF bytes[i] < 128 THEN bytes[i] ELSE ReplacementChar]

\* nom's take(n) and the fixed-width number parsers: the first n bytes and
\* the rest, or an error on a short input.
Take(n, input) ==
    IF Len(input) < n THEN [ok |-> FALSE]
    ELSE [ok |-> TRUE, got |-> SubSeq(input, 1, n), rest |-> SubSeq(input, n + 1, Len(input))]

\* The number of body bytes each RecordCode reads.
WidthOf(code) ==
    CASE code.tag = "I8" -> 1
      [] code.tag = "I16" -> 2
      [] code.tag = "I24" -> 3
      [] code.tag = "I32" -> 4
      [] code.tag = "I48" -> 6
      [] code.tag \in {"I64", "F64"} -> 8
      [] code.tag \in {"Blob", "String"} -> code.n
      [] OTHER -> 0

\* The mutant of ValueOf: the six-byte integer is not sign extended and a
\* text is returned as a blob.
ValueOfUnsigned(code, got) ==
    CASE code.tag = "Null" -> Null
      [] code.tag \in {"I8", "I16", "I24", "I32", "I64"} -> Integer(SignExtend(got))
      [] code.tag = "I48" -> Integer(FoldBytes(got, Zero64))
      [] code.tag = "F64" -> Float(FoldBytes(got, Zero64))
      [] code.tag = "Zero" -> Integer(Zero64)
      [] code.tag = "One" -> Integer(AsU64(1))
      [] code.tag = "Blob" -> Blob(got)
      [] OTHER -> Blob(got)

\* The Value each arm of RecordCode::parse builds from the bytes it took.
ValueOf(code, got) ==
    CASE code.tag = "Null" -> Null
      [] code.tag \in {"I8", "I16", "I24", "I32", "I64"} -> Integer(SignExtend(got))
      [] code.tag = "I48" -> Integer(ParseI48(got))
      [] code.tag = "F64" -> Float(FoldBytes(got, Zero64))
      [] code.tag = "Zero" -> Integer(Zero64)
      [] code.tag = "One" -> Integer(AsU64(1))
      [] code.tag = "Blob" -> Blob(got)
      [] OTHER -> Text(Utf8Lossy(got))

\* RecordCode::parse(self, input): Ok((rest, value)) or a nom error.
RecordCodeParse(code, input) ==
    LET t == Take(WidthOf(code), input)
    IN  IF t.ok THEN [ok |-> TRUE, rest |-> t.rest, val |-> ValueOf(code, t.got)]
        ELSE [ok |-> FALSE]

(***************************************************************************)
(* parsers/payload.rs, parsers/cells.rs                                    *)
(*                                                                         *)
(* A call ends in one of three ways: st = "ok" with a value, st = "err"    *)
(* with an error value returned to the caller, or st = "panic", which      *)
(* unwinds through every caller and ends the program.                      *)
(***************************************************************************)
Err == [st |-> "err"]
Panic == [st |-> "panic"]

\* many1(into(varint))(header): serial types are read until the header ends
\* or a varint does not parse; none at all is an error, and `into` panics on
\* a reserved code as soon as it is read.
RECURSIVE Many1Codes(_, _)
Many1Read(codes, v) ==
    IF ~v.ok
    THEN IF codes = <<>> THEN Err ELSE [st |-> "ok", codes |-> codes]
    ELSE IF RecordCodeFrom(v.val).tag = "panic" THEN Panic
    ELSE Many1Codes(v.rest, Append(codes, RecordCodeFrom(v.val)))

Many1Codes(header, codes) == Many1Read(codes, varint(header))

\* for code in codes { let (input, rec) = code.parse(body)?; ... }
RECURSIVE ParseBody(_, _, _)
ParseBody(codes, body, records) ==
    IF codes = <<>> THEN [st |-> "ok", rest |-> body, row |-> records]
    ELSE LET r == RecordCodeParse(Head(codes), body)
         IN  IF ~r.ok THEN Err
             ELSE ParseBody(Tail(codes), r.rest, Append(records, r.val))

\* Payload::parse, in its steps.  Slicing the payload at a header size
\* beyond its end panics.  The body, once the serial types cs are read:
PayloadTyped(payload, hs, cs) ==
    IF cs.st # "ok" THEN cs
    ELSE ParseBody(cs.codes, SubSeq(payload, CodeNum(hs.val) + 1, Len(payload)), <<>>)

\* The header, from its size varint to the serial types.
PayloadHeader(payload, hs, h1) ==
    IF ~h1.ok THEN Err ELSE PayloadTyped(payload, hs, Many1Codes(h1.rest, <<>>))

\* The payload once the header size hs is read.
PayloadSized(payload, hs) ==
    IF ~hs.ok THEN Err
    ELSE IF CodeNum(hs.val) > Len(payload) THEN Panic
    ELSE PayloadHeader(payload, hs, varint(SubSeq(payload, 1, CodeNum(hs.val))))

\* Payload::parse
PayloadParse(payload) == PayloadSized(payload, varint(payload))

\* Cell::get_payload: a TableInterior cell has none.
get_payload(cell) ==
    IF cell.kind = "TableInterior" THEN [some |-> FALSE]
    ELSE [some |-> TRUE, payload |-> cell.payload]

\* The mutant of AliasRowId: the first value of every cell that carries a
\* row_id field is overwritten, Null or not.
AliasRowIdAlways(cell, row) ==
    IF cell.kind = "TableLeaf"
    THEN [row EXCEPT ![1] = Integer(cell.row_id)]
    ELSE row

\* if let Cell::TableLeaf { row_id, .. } = value {
\*     match row[0] { Value::Null => row[0] = Value::Integer(row_id as i64), _ => {} } }
AliasRowId(cell, row) ==
    IF cell.kind = "TableLeaf" /\ row[1] = Null
    THEN [row EXCEPT ![1] = Integer(cell.row_id)]
    ELSE row

\* The row of a cell whose payload decoded to r.
RowOfRecord(cell, r) ==
    IF r.st # "ok" THEN r ELSE [st |-> "ok", row |-> AliasRowId(cell, r.row)]

\* impl TryFrom<Cell> for Vec<Value>
TryFromCell(cell) ==
    IF ~get_payload(cell).some THEN Err
    ELSE RowOfRecord(cell, PayloadParse(get_payload(cell).payload))

(***************************************************************************)
(* Strings.  A Rust String whose order or whose characters matter (a       *)
(* value's text, a literal of a condition, an index key) is a sequence of  *)
(* character codes; `<=` on Strings is the lexicographic order.            *)
(***************************************************************************)
RECURSIVE StrLess(_, _)
StrLess(a, b) ==
    IF b = <<>> THEN FALSE
    ELSE IF a = <<>> THEN TRUE
    ELSE IF Head(a) # Head(b) THEN Head(a) < Head(b)
    ELSE StrLess(Tail(a), Tail(b))

StrLe(a, b) == a = b \/ StrLess(a, b)

IsDigit(c) == c \in 48..57

(***************************************************************************)
(* i64 and u64 arithmetic on 64-bit words.                                 *)
(***************************************************************************)
\* a < b as u64
RECURSIVE ULessFrom(_, _, _)
ULessFrom(a, b, i) ==
    IF i > W64 THEN FALSE
    ELSE IF a[i] # b[i] THEN a[i] < b[i]
    ELSE ULessFrom(a, b, i + 1)

ULess(a, b) == ULessFrom(a, b, 1)

\* a < b as i64
ILess(a, b) == IF a[1] # b[1] THEN a[1] = 1 ELSE ULess(a, b)

\* The two's complement of x: -x as i64, and the magnitude of a negative x
\* as u64.
Negate(x) ==
    LET low == IF \E i \in 1..W64 : x[i] = 1
               THEN CHOOSE i \in 1..W64 : x[i] = 1 /\ \A j \in (i + 1)..W64 : x[j] = 0
               ELSE 0
    IN  [i \in 1..W64 |-> IF i < low THEN 1 - x[i] ELSE x[i]]

\* A number of the model (below 2^30 in magnitude) as an i64.
IntWord(n) == IF n >= 0 THEN NatWord(n) ELSE Negate(NatWord(-n))

\* A u64 as four 16-bit limbs, most significant first.
Limbs(u) ==
    <<NumOf(Slice(u, 1, 16)), NumOf(Slice(u, 17, 32)),
      NumOf(Slice(u, 33, 48)), NumOf(Slice(u, 49, 64))>>

\* Long division of the limbs by ten: the quotient's limbs and the
\* remainder.
LimbDivMod10(l) ==
    LET t1 == l[1]
        t2 == (t1 % 10) * 65536 + l[2]
        t3 == (t2 % 10) * 65536 + l[3]
        t4 == (t3 % 10) * 65536 + l[4]
    IN  <<t1 \div 10, t2 \div 10, t3 \div 10, t4 \div 10, t4 % 10>>

\* The decimal digits of a u64 held as limbs (none for zero).
RECURSIVE LimbDigits(_)
LimbDigits(l) ==
    IF \A k \in 1..4 : l[k] = 0 THEN <<>>
    ELSE Append(LimbDigits(SubSeq(LimbDivMod10(l), 1, 4)), 48 + LimbDivMod10(l)[5])

DecimalDigits(u) == LimbDigits(Limbs(u))

\* format!("{}", n) for n: u64 and for n: i64
U64ToString(u) == IF u = Zero64 THEN <<48>> ELSE DecimalDigits(u)
I64ToString(x) == IF x[1] = 1 THEN <<45>> \o DecimalDigits(Negate(x)) ELSE U64ToString(x)

\* The value of a string of digits.  Literals of the model have at most
\* MaxDigits digits, so the value is a number of the model.
MaxDigits == 9
RECURSIVE DigitsValue(_, _)
DigitsValue(ds, acc) ==
    IF ds = <<>> THEN acc ELSE DigitsValue(Tail(ds), 10 * acc + (Head(ds) - 48))

AllDigits(ds) == ds # <<>> /\ Len(ds) <= MaxDigits /\ \A i \in 1..Len(ds) : IsDigit(ds[i])

\* str::parse::<i64>: an optional sign and one or more digits.
ParseI64(s) ==
    IF s # <<>> /\ Head(s) \in {43, 45}
    THEN IF AllDigits(Tail(s))
         THEN [ok |-> TRUE,
               val |-> IntWord(IF Head(s) = 45 THEN -DigitsValue(Tail(s), 0)
                               ELSE DigitsValue(Tail(s), 0))]
         ELSE [ok |-> FALSE]
    ELSE IF AllDigits(s) THEN [ok |-> TRUE, val |-> IntWord(DigitsValue(s, 0))]
    ELSE [ok |-> FALSE]

\* str::parse::<u64>: an optional plus sign and one or more digits.
ParseU64(s) ==
    LET ds == IF s # <<>> /\ Head(s) = 43 THEN Tail(s) ELSE s
    IN  IF AllDigits(ds) THEN [ok |-> TRUE, val |-> NatWord(DigitsValue(ds, 0))]
        ELSE [ok |-> FALSE]

(***************************************************************************)
(* f64.  A float is its 64 bits: a sign, eleven bits of exponent and 52    *)
(* bits of fraction.  The floats whose text or order the model computes    *)
(* are the multiples of one half below 2^29 in magnitude, held as the      *)
(* number of halves; the literals parsed as f64 are [+-]digits[.0|.5].     *)
(***************************************************************************)
F64Exp(x) == NumOf(Slice(x, 2, 12))
F64IsZero(x) == \A i \in 2..W64 : x[i] = 0
F64IsNaN(x) == F64Exp(x) = 2047 /\ \E i \in 13..W64 : x[i] = 1

\* Whether x is a multiple of one half the model computes with.
F64InModel(x) ==
    \/ F64IsZero(x)
    \/ /\ F64Exp(x) \in 1022..1051
       /\ \A i \in (13 + (F64Exp(x) - 1022))..W64 : x[i] = 0

\* Twice the value of x, for x in the model.
F64Halves(x) ==
    IF F64IsZero(x) THEN 0
    ELSE LET e == F64Exp(x) - 1022
             m == Pow2(e) + NumOf(Slice(x, 13, 12 + e))
         IN  IF x[1] = 1 THEN -m ELSE m

\* `n as u64` for n: f64: toward zero, saturating, NaN to zero.
F64AsU64(x) ==
    LET e == F64Exp(x) - 1023
        m == <<1>> \o Slice(x, 13, W64)      \* the 53 bits of the significand
    IN  IF F64IsNaN(x) \/ x[1] = 1 \/ e < 0 THEN Zero64
        ELSE IF e >= W64 THEN [i \in 1..W64 |-> 1]
        ELSE [i \in 1..W64 |->
                LET k == i - (W64 - 1 - e)   \* the bit of m that lands on bit i
                IN  IF k >= 1 /\ k <= 53 THEN m[k] ELSE 0]

\* format!("{}", f) for f in the model: no fraction is printed for a whole
\* number.
F64ToString(x) ==
    LET h == F64Halves(x)
        a == IF h < 0 THEN -h ELSE h
        sign == IF x[1] = 1 THEN <<45>> ELSE <<>>
    IN  sign \o U64ToString(NatWord(a \div 2)) \o (IF a % 2 = 1 THEN <<46, 53>> ELSE <<>>)

\* str::parse::<f64> on the literals of the model, as a number of halves.
ParseF64(s) ==
    LET neg == s # <<>> /\ Head(s) = 45
        body == IF s # <<>> /\ Head(s) \in {43, 45} THEN Tail(s) ELSE s
        dot == IF \E i \in 1..Len(body) : body[i] = 46
               THEN CHOOSE i \in 1..Len(body) : body[i] = 46 /\ \A j \in 1..(i - 1) : body[j] # 46
               ELSE Len(body) + 1
        ip == SubSeq(body, 1, dot - 1)
        fp == SubSeq(body, dot + 1, Len(body))
    IN  IF AllDigits(ip) /\ fp \in {<<>>, <<48>>, <<53>>}
        THEN [ok |-> TRUE,
              halves |-> (IF neg THEN -1 ELSE 1)
                            * (2 * DigitsValue(ip, 0) + (IF fp = <<53>> THEN 1 ELSE 0))]
        ELSE [ok |-> FALSE]

(***************************************************************************)
(* parsers/value.rs: Display and the numeric conversions of Value.         *)
(***************************************************************************)
\* format!("{:?}", bytes) for bytes: Vec<u8>
RECURSIVE DebugBytes(_)
DebugBytes(bytes) ==
    IF bytes = <<>> THEN <<>>
    ELSE U64ToString(NatWord(Head(bytes)))
            \o (IF Tail(bytes) = <<>> THEN <<>> ELSE <<44, 32>> \o DebugBytes(Tail(bytes)))

\* impl Display for Value
to_string(v) ==
    CASE v.t = "Null" -> <<>>
      [] v.t = "Integer" -> I64ToString(v.v)
      [] v.t = "Float" -> F64ToString(v.v)
      [] v.t = "Blob" -> <<91>> \o DebugBytes(v.v) \o <<93>>
      [] OTHER -> v.v

\* impl From<Value> for u64
ValueIntoU64(v) ==
    CASE v.t = "Null" -> Zero64
      [] v.t = "Integer" -> v.v
      [] v.t = "Float" -> F64AsU64(v.v)
      [] v.t = "Blob" -> Zero64
      [] OTHER -> IF ParseU64(v.v).ok THEN ParseU64(v.v).val ELSE Zero64

(***************************************************************************)
(* parsers/sql.rs: conditions.  A condition is [op, col, val, to]: the     *)
(* operator, the column's name, the literal, and for Between the upper     *)
(* literal.  Column and table names are strings; literals are character    *)
(* sequences.                                                              *)
(***************************************************************************)
Ops == {"Eq", "Greater", "GreaterEq", "Less", "LessEq", "Ne"}

\* The literal NULL
NullWord == <<78, 85, 76, 76>>

\* Whether `a op b` holds when a compares to b as ord says (-1, 0 or 1).
OpHolds(op, ord) ==
    CASE op = "Eq" -> ord = 0
      [] op = "Greater" -> ord = 1
      [] op = "GreaterEq" -> ord >= 0
      [] op = "Less" -> ord = -1
      [] op = "LessEq" -> ord <= 0
      [] op = "Ne" -> ord # 0

IOrd(a, b) == IF a = b THEN 0 ELSE IF ILess(a, b) THEN -1 ELSE 1
SOrd(a, b) == IF a = b THEN 0 ELSE IF StrLess(a, b) THEN -1 ELSE 1

\* f op val on f64: every comparison with a NaN is false but !=.
FOp(op, f, halves) ==
    IF F64IsNaN(f) THEN op = "Ne"
    ELSE OpHolds(op, IF F64Halves(f) = halves THEN 0
                     ELSE IF F64Halves(f) < halves THEN -1 ELSE 1)

\* The arms of eval for one comparison operator, applied to the value v of
\* the condition's column.
EvalCmp(op, v, val) ==
    CASE v.t = "Integer" -> ParseI64(val).ok /\ OpHolds(op, IOrd(v.v, ParseI64(val).val))
      [] v.t = "Text" -> OpHolds(op, SOrd(v.v, val))
      [] v.t = "Float" -> ParseF64(val).ok /\ FOp(op, v.v, ParseF64(val).halves)
      [] v.t = "Null" -> val = NullWord
      [] OTHER -> FALSE

\* The Between arm.
EvalBetween(v, from, to) ==
    CASE v.t = "Integer" ->
            /\ ParseI64(from).ok /\ ParseI64(to).ok
            /\ ~ILess(v.v, ParseI64(from).val) /\ ~ILess(ParseI64(to).val, v.v)
      [] v.t = "Text" -> StrLe(from, v.v) /\ StrLe(v.v, to)
      [] v.t = "Float" ->
            /\ ParseF64(from).ok /\ ParseF64(to).ok
            /\ FOp("GreaterEq", v.v, ParseF64(from).halves)
            /\ FOp("LessEq", v.v, ParseF64(to).halves)
      [] OTHER -> FALSE

\* row[column.idx] is out of bounds: eval panics.
EvalPanics(cond, row, columns) ==
    cond.col \in DOMAIN columns /\ columns[cond.col].idx >= Len(row)

\* Condition::eval, where it does not panic.
eval(cond, row, columns) ==
    /\ cond.col \in DOMAIN columns
    /\ IF cond.op = "Between"
       THEN EvalBetween(row[columns[cond.col].idx + 1], cond.val, cond.to)
       ELSE EvalCmp(cond.op, row[columns[cond.col].idx + 1], cond.val)

(***************************************************************************)
(* parsers/sql.rs: the DDL grammar.  A statement of the catalogue is the   *)
(* sequence of its tokens: an operation, words, the phrases of a column's  *)
(* constraints, and the symbols ( ) and , .                                *)
(***************************************************************************)
Operations ==
    {"CREATE TABLE", "create table", "SELECT", "select", "INSERT INTO", "insert into",
     "UPDATE", "update", "DELETE FROM", "delete from", "DROP TABLE", "drop table",
     "ALTER TABLE", "alter table", "BEGIN TRANSACTION", "begin transaction",
     "COMMIT", "commit", "ROLLBACK", "rollback", "END TRANSACTION", "end transaction",
     "CREATE INDEX", "create index"}

Symbols == {"(", ")", ","}
Phrases == {"PRIMARY KEY", "primary key", "NOT NULL", "not null"}

\* rule word(): a token of letters, digits, dots and underscores
IsWord(tok) == tok \notin Symbols \cup Phrases \cup {o \in Operations : o \notin
                    {"SELECT", "select", "UPDATE", "update", "COMMIT", "commit",
                     "ROLLBACK", "rollback"}}

\* rule cell_type()
CellTypes == {"integer", "float", "text", "blob"}

CellTypeOf(tok) ==
    CASE tok = "integer" -> "Integer"
      [] tok = "float" -> "Float"
      [] tok = "text" -> "Text"
      [] OTHER -> "Blob"

At(toks, p) == IF p <= Len(toks) THEN toks[p] ELSE "<eof>"

\* rule column() at token p: the column and the position after it.
ColumnRule(toks, p) ==
    IF IsWord(At(toks, p)) /\ At(toks, p + 1) \in CellTypes
    THEN LET pk == At(toks, p + 2) \in {"PRIMARY KEY", "primary key"}
             p3 == IF pk THEN p + 3 ELSE p + 2
             auto == At(toks, p3) \in {"AUTOINCREMENT", "autoincrement"}
             p4 == IF auto THEN p3 + 1 ELSE p3
             notnull == At(toks, p4) \in {"NOT NULL", "not null"}
         IN  [ok |-> TRUE,
              name |-> toks[p], cell_type |-> CellTypeOf(toks[p + 1]), pk |-> pk,
              nullable |-> ~pk /\ ~notnull,
              next |-> IF notnull THEN p4 + 1 ELSE p4]
    ELSE [ok |-> FALSE]

\* column() ** ",": the columns from token p on, and the position after
\* the last of them.
RECURSIVE ColumnList(_, _, _)
ColumnsFrom(toks, p, cols, col) ==
    IF ~col.ok THEN [cols |-> cols, next |-> p]
    ELSE IF At(toks, col.next) = "," /\ ColumnRule(toks, col.next + 1).ok
         THEN ColumnList(toks, col.next + 1, Append(cols, col))
         ELSE [cols |-> Append(cols, col), next |-> col.next]

ColumnList(toks, p, cols) == ColumnsFrom(toks, p, cols, ColumnRule(toks, p))

None == [some |-> FALSE]
Some(x) == [some |-> TRUE, v |-> x]

\* from_iter keeping the first of the columns that share a name.
ColumnOfFirst(cols, name) ==
    LET i == CHOOSE i \in 1..Len(cols) :
                /\ cols[i].name = name
                /\ \A j \in 1..(i - 1) : cols[j].name # name
    IN  [idx |-> i - 1, name |-> name, cell_type |-> cols[i].cell_type,
         nullable |-> cols[i].nullable, pk |-> cols[i].pk]

\* The Column of a name: HashMap::from_iter keeps the last of the columns
\* that share a name; idx is the position in the statement.
ColumnOf(cols, name) ==
    LET i == CHOOSE i \in 1..Len(cols) :
                /\ cols[i].name = name
                /\ \A j \in (i + 1)..Len(cols) : cols[j].name # name
    IN  [idx |-> i - 1, name |-> name, cell_type |-> cols[i].cell_type,
         nullable |-> cols[i].nullable, pk |-> cols[i].pk]

\* The Table of rule create(), once its column list cl is read.
TableOf(toks, cl) ==
    LET pks == {i \in 1..Len(cl.cols) : cl.cols[i].pk}
    IN  IF At(toks, cl.next) = ")" /\ cl.next = Len(toks)
        THEN [ok |-> TRUE,
              table |-> [name |-> toks[2],
                         columns |-> [n \in {cl.cols[i].name : i \in 1..Len(cl.cols)} |->
                                        ColumnOf(cl.cols, n)],
                         key |-> IF pks = {} THEN None
                                 ELSE Some(cl.cols[CHOOSE i \in pks : \A j \in pks : j <= i].name)]]
        ELSE [ok |-> FALSE]

\* rule create(), through create_sql
create_sql(toks) ==
    IF At(toks, 1) \in Operations /\ IsWord(At(toks, 2)) /\ At(toks, 3) = "("
    THEN TableOf(toks, ColumnList(toks, 4, <<>>))
    ELSE [ok |-> FALSE]

\* rule create_idx(), through create_idx_sql: the table and the column
create_idx_sql(toks) ==
    IF /\ Len(toks) = 7
       /\ toks[1] \in Operations /\ IsWord(toks[2]) /\ toks[3] \in {"on", "ON"}
       /\ IsWord(toks[4]) /\ toks[5] = "(" /\ IsWord(toks[6]) /\ toks[7] = ")"
    THEN [ok |-> TRUE, table |-> toks[4], column |-> toks[6]]
    ELSE [ok |-> FALSE]

(***************************************************************************)
(* sqlite/pages.rs and sqlite/db.rs: the file.  A file is its catalogue    *)
(* (the rows of page 1, decoded) and its B-tree pages 2..n; a page is the  *)
(* byte of its kind, its rightmost pointer and the cells its pointer array *)
(* leads to, in the array's order.  A cell holds the fields parse_cell     *)
(* reads for the page's kind: left_child_page, row_id, payload.            *)
(***************************************************************************)
\* impl TryFrom<u8> for PageKind
PageKind(byte) ==
    CASE byte = 2 -> Some("IndexInterior")
      [] byte = 5 -> Some("TableInterior")
      [] byte = 10 -> Some("IndexLeaf")
      [] byte = 13 -> Some("TableLeaf")
      [] OTHER -> None

\* Database::get_page: the seek, the read and the header's parse are all
\* unwrapped, so a page past the end of the file or with an invalid kind
\* byte panics; no Err is ever returned.
get_page(file, pgno) ==
    IF pgno \notin DOMAIN file.pages THEN Panic
    ELSE IF ~PageKind(file.pages[pgno].kind).some THEN Panic
    ELSE [st |-> "ok",
          page |-> [page_id |-> pgno,
                    kind |-> PageKind(file.pages[pgno].kind).v,
                    cell_count |-> Len(file.pages[pgno].cells),
                    rightmost_pointer |-> file.pages[pgno].rightmost_pointer,
                    cells |-> file.pages[pgno].cells]]

\* Page::cells with BtreeHeader::parse_cell: cell i of the page, of the
\* page's kind.
CellAt(page, i) ==
    [kind |-> page.kind,
     left_child_page |-> page.cells[i].left_child_page,
     row_id |-> page.cells[i].row_id,
     payload |-> page.cells[i].payload]

\* Cell::next_page: the left child of an interior cell, unless it is zero.
CellNextPage(cell) ==
    IF cell.kind \in {"TableInterior", "IndexInterior"} /\ cell.left_child_page # 0
    THEN Some(cell.left_child_page)
    ELSE None

\* Search::next_page
next_page(search, pgno) == [search EXCEPT !.pgno = pgno]

\* <[u64]>::binary_search(..).is_ok(), as the standard library computes it
\* by halving [left, right).
RECURSIVE BinarySearch(_, _, _, _)
BinarySearch(xs, x, left, right) ==
    IF left >= right THEN FALSE
    ELSE IF xs[left + (right - left) \div 2 + 1] = x THEN TRUE
    ELSE IF ULess(xs[left + (right - left) \div 2 + 1], x)
         THEN BinarySearch(xs, x, left + (right - left) \div 2 + 1, right)
         ELSE BinarySearch(xs, x, left, left + (right - left) \div 2)

\* The search of the lower half of the list only.
binary_searchLowerHalf(xs, x) == BinarySearch(xs, x, 0, Len(xs) \div 2)

binary_search(xs, x) == BinarySearch(xs, x, 0, Len(xs))

\* <[u64]>::contains
contains(xs, x) == \E i \in 1..Len(xs) : xs[i] = x

\* The result of a walk: the rows, the pages fetched, in order, and the
\* walk of the table an IndexInterior arm ended with, if it did.  A panic
\* ends the program; what it had fetched is kept for the record.
Rows(rs, fetched) == [st |-> "ok", rows |-> rs, fetched |-> fetched, rejoin |-> None]
Panicked(fetched) == [st |-> "panic", rows |-> <<>>, fetched |-> fetched, rejoin |-> None]

\* The conditions of the leaf arm: the table is parsed from the schema's
\* statement for every condition, and a failed parse counts as false.
CondsPanicOn(search, row, parsed) ==
    /\ parsed.ok
    /\ \E i \in 1..Len(search.conds) : EvalPanics(search.conds[i], row, parsed.table.columns)

CondsPanic(search, row) == CondsPanicOn(search, row, create_sql(search.schema.sql))

\* Every condition evaluates true on the row, with the schema's Table parsed.
CondsHoldOn(search, row, parsed) ==
    \A i \in 1..Len(search.conds) :
        parsed.ok /\ eval(search.conds[i], row, parsed.table.columns)

CondsHold(search, row) == CondsHoldOn(search, row, create_sql(search.schema.sql))

\* The closure with its filters as alternatives: the list, else the key,
\* else the conditions.
LeafKeepsAlternatives(search, cell, row) ==
    IF search.indeces.some /\ cell.kind = "TableLeaf"
    THEN contains(search.indeces.v, cell.row_id)
    ELSE IF search.key.some THEN row # <<>> /\ to_string(row[1]) = search.key.v
    ELSE CondsHold(search, row)

\* The closure of the leaf arm: whether a decoded row is emitted.
LeafKeeps(search, cell, row) ==
    /\ search.indeces.some /\ cell.kind = "TableLeaf" => contains(search.indeces.v, cell.row_id)
    /\ IF search.key.some
       THEN row # <<>> /\ to_string(row[1]) = search.key.v
       ELSE CondsHold(search, row)

\* Whether the closure panics on a decoded row: only eval can.
LeafPanics(search, cell, row) ==
    /\ search.indeces.some /\ cell.kind = "TableLeaf" => contains(search.indeces.v, cell.row_id)
    /\ ~search.key.some
    /\ CondsPanic(search, row)

\* One cell of the leaf arm: t is the cell's row decoded, rest the rows of
\* the cells after it.
LeafCell(search, cell, t, rest) ==
    IF t.st = "panic" THEN Panicked(<<>>)
    ELSE IF t.st = "err" THEN rest
    ELSE IF LeafPanics(search, cell, t.row) \/ rest.st = "panic" THEN Panicked(<<>>)
    ELSE IF LeafKeeps(search, cell, t.row) THEN Rows(<<t.row>> \o rest.rows, <<>>)
    ELSE rest

RECURSIVE LeafRows(_, _, _)

\* The mutant of LeafRows: the last cell of a page is not read.
LeafRowsSkipLast(search, page, i) ==
    IF i >= page.cell_count THEN Rows(<<>>, <<>>)
    ELSE LeafCell(search, CellAt(page, i), TryFromCell(CellAt(page, i)),
                  LeafRows(search, page, i + 1))

\* The leaf arm: the cells from i on.
LeafRows(search, page, i) ==
    IF i > page.cell_count THEN Rows(<<>>, <<>>)
    ELSE LeafCell(search, CellAt(page, i), TryFromCell(CellAt(page, i)),
                  LeafRows(search, page, i + 1))

\* r.get(1)?.clone().into() over the rows of an index walk: the second
\* value of every row that has one, as u64.
RECURSIVE RowIndeces(_)
RowIndeces(rs) ==
    IF rs = <<>> THEN <<>>
    ELSE IF Len(Head(rs)) >= 2 THEN <<ValueIntoU64(Head(rs)[2])>> \o RowIndeces(Tail(rs))
    ELSE RowIndeces(Tail(rs))

\* A walk r that ran after the pages in `before` were fetched.
After(before, r) == [r EXCEPT !.fetched = before \o @]

RECURSIVE rows(_, _)
RECURSIVE TableInteriorRows(_, _, _, _, _, _)
RECURSIVE IndexInteriorRows(_, _, _, _, _, _, _, _)

\* The mutant of TableInteriorRows: the rightmost pointer is not followed.
TableInteriorRowsNoRightmost(file, search, page, i, acc, fetched) ==
    IF i > page.cell_count
    THEN Rows(acc, fetched)
    ELSE LET cell == CellAt(page, i)
             next == CellNextPage(cell)
             r == rows(file, next_page(search, next.v))
         IN  IF ~next.some THEN TableInteriorRows(file, search, page, i + 1, acc, fetched)
             ELSE IF r.st = "panic" THEN Panicked(fetched \o r.fetched)
             ELSE IF search.indeces.some /\ binary_search(search.indeces.v, cell.row_id)
                  THEN After(fetched, r)
             ELSE TableInteriorRows(file, search, page, i + 1,
                                    acc \o r.rows, fetched \o r.fetched)

\* The TableInterior arm from cell i on: acc is `rows`, fetched the pages
\* read so far.  Every cell's left child is walked; with a row-id list set,
\* a cell whose row_id the list holds ends the arm with its child's rows
\* alone.  After the cells, the rightmost pointer is walked.
TableInteriorRows(file, search, page, i, acc, fetched) ==
    IF i > page.cell_count
    THEN IF page.rightmost_pointer # 0
         THEN LET r == rows(file, next_page(search, page.rightmost_pointer))
              IN  IF r.st = "panic" THEN Panicked(fetched \o r.fetched)
                  ELSE Rows(acc \o r.rows, fetched \o r.fetched)
         ELSE Rows(acc, fetched)
    ELSE LET cell == CellAt(page, i)
             next == CellNextPage(cell)
             r == rows(file, next_page(search, next.v))
         IN  IF ~next.some THEN TableInteriorRows(file, search, page, i + 1, acc, fetched)
             ELSE IF r.st = "panic" THEN Panicked(fetched \o r.fetched)
             ELSE IF search.indeces.some /\ binary_search(search.indeces.v, cell.row_id)
                  THEN After(fetched, r)
             ELSE TableInteriorRows(file, search, page, i + 1,
                                    acc \o r.rows, fetched \o r.fetched)

\* The end of the IndexInterior arm: with row ids collected, the table is
\* walked from its root with the list and without the key.
IndexInteriorRejoin(file, search, indices, acc, fetched) ==
    IF indices # <<>>
    THEN LET r == rows(file, [pgno |-> search.schema.rootpage, key |-> None,
                              indeces |-> Some(indices), schema |-> search.schema,
                              conds |-> search.conds])
         IN  IF r.st = "panic" THEN Panicked(fetched \o r.fetched)
             ELSE [Rows(acc \o r.rows, fetched \o r.fetched)
                     EXCEPT !.rejoin = Some([indeces |-> indices, rows |-> r.rows])]
    ELSE Rows(acc, fetched)

\* One cell of the IndexInterior arm's loop: t is the cell's row decoded,
\* row_key its first value as text, next the cell's left child and r the
\* walk of that child.
IndexInteriorCell(file, search, page, i, left_key, indices, acc, fetched, t, row_key, next, r) ==
    IF t.st = "panic" THEN Panicked(fetched)
    ELSE IF t.st = "err" \/ t.row = <<>>
         THEN IndexInteriorRows(file, search, page, i + 1, left_key, indices, acc, fetched)
    ELSE IF left_key.some
         THEN IF StrLe(left_key.v, search.key.v) /\ StrLe(search.key.v, row_key)
              THEN IF ~next.some
                   THEN IndexInteriorRows(file, search, page, i + 1,
                                          left_key, indices, acc, fetched)
                   ELSE IF r.st = "panic" THEN Panicked(fetched \o r.fetched)
                   ELSE IF left_key.v = search.key.v
                        THEN IndexInteriorRejoin(file, search,
                               indices \o RowIndeces(IF row_key = search.key.v
                                                     THEN Append(r.rows, t.row)
                                                     ELSE r.rows),
                               acc, fetched \o r.fetched)
                   ELSE IndexInteriorRows(file, search, page, i + 1, Some(row_key),
                               indices \o RowIndeces(IF row_key = search.key.v
                                                     THEN Append(r.rows, t.row)
                                                     ELSE r.rows),
                               acc, fetched \o r.fetched)
              ELSE IF left_key.v = search.key.v
                   THEN IndexInteriorRejoin(file, search, indices, acc, fetched)
                   ELSE IndexInteriorRows(file, search, page, i + 1, Some(row_key),
                                          indices, acc, fetched)
         ELSE IF StrLe(search.key.v, row_key)
              THEN IF ~next.some
                   THEN IndexInteriorRows(file, search, page, i + 1,
                                          left_key, indices, acc, fetched)
                   ELSE IF r.st = "panic" THEN Panicked(fetched \o r.fetched)
                   ELSE IndexInteriorRows(file, search, page, i + 1, Some(row_key),
                                          indices, acc \o r.rows, fetched \o r.fetched)
              ELSE IndexInteriorRows(file, search, page, i + 1, Some(row_key),
                                     indices, acc, fetched)

\* The arm with the rightmost pointer followed after the last cell.
IndexInteriorRowsRightmost(file, search, page, i, left_key, indices, acc, fetched) ==
    IF i > page.cell_count
    THEN IndexInteriorRejoin(file, search, indices,
            acc \o rows(file, next_page(search, page.rightmost_pointer)).rows,
            fetched \o rows(file, next_page(search, page.rightmost_pointer)).fetched)
    ELSE IndexInteriorCell(file, search, page, i, left_key, indices, acc, fetched,
                           TryFromCell(CellAt(page, i)),
                           to_string(TryFromCell(CellAt(page, i)).row[1]),
                           CellNextPage(CellAt(page, i)),
                           rows(file, next_page(search, CellNextPage(CellAt(page, i)).v)))

\* The IndexInterior arm from cell i on, with the loop's left_key, indices
\* and rows (acc).
IndexInteriorRows(file, search, page, i, left_key, indices, acc, fetched) ==
    IF i > page.cell_count THEN IndexInteriorRejoin(file, search, indices, acc, fetched)
    ELSE IndexInteriorCell(file, search, page, i, left_key, indices, acc, fetched,
                           TryFromCell(CellAt(page, i)),
                           to_string(TryFromCell(CellAt(page, i)).row[1]),
                           CellNextPage(CellAt(page, i)),
                           rows(file, next_page(search, CellNextPage(CellAt(page, i)).v)))

\* Database::rows
rows(file, search) ==
    LET got == get_page(file, search.pgno)
    IN  IF got.st = "panic" THEN Panicked(<<search.pgno>>)
        ELSE CASE got.page.kind = "TableInterior" ->
                    TableInteriorRows(file, search, got.page, 1, <<>>, <<search.pgno>>)
               [] got.page.kind = "IndexInterior" ->
                    IF search.key.some /\ search.schema.rootpage # 0
                    THEN IndexInteriorRows(file, search, got.page, 1, None, <<>>, <<>>,
                                           <<search.pgno>>)
                    ELSE Rows(<<>>, <<search.pgno>>)
               [] OTHER -> After(<<search.pgno>>, LeafRows(search, got.page, 1))

(***************************************************************************)
(* The record format's writer: a record is the varint of its header size,  *)
(* the varints of its serial types, and its body.                          *)
(***************************************************************************)
RECURSIVE EncodeCodes(_)
EncodeCodes(types) ==
    IF types = <<>> THEN <<>>
    ELSE EncodeVarint(NatWord(Head(types))) \o EncodeCodes(Tail(types))

\* Headers of the model are shorter than 127 bytes: the size is one byte.
EncodeRecord(types, body) ==
    <<Len(EncodeCodes(types)) + 1>> \o EncodeCodes(types) \o body

(***************************************************************************)
(* sqlite/db.rs, utils.rs, sqlite/tables.rs, repl.rs: a SELECT.            *)
(***************************************************************************)
SchemaTypes == {"table", "index", "view", "trigger"}

\* Database::get_schemas: the catalogue's rows by name, the later of two
\* rows of one name; a row whose type is none of the four is dropped.
get_schemas(file) ==
    LET ok == {i \in 1..Len(file.catalog) : file.catalog[i].stype \in SchemaTypes}
    IN  [n \in {file.catalog[i].name : i \in ok} |->
            file.catalog[CHOOSE i \in ok :
                            /\ file.catalog[i].name = n
                            /\ \A j \in ok : file.catalog[j].name = n => j <= i]]

\* The closure without the test of the index's table.
IndexesOnAnyTable(schemas, target, column) ==
    {n \in DOMAIN schemas :
        /\ schemas[n].stype = "index"
        /\ create_idx_sql(schemas[n].sql).ok
        /\ create_idx_sql(schemas[n].sql).column = column}

\* The index schemas find_table_index's closure accepts for a column.
IndexesOn(schemas, target, column) ==
    {n \in DOMAIN schemas :
        /\ schemas[n].stype = "index" /\ schemas[n].table_name = target
        /\ create_idx_sql(schemas[n].sql).ok
        /\ create_idx_sql(schemas[n].sql).column = column}

\* The arms of find_table_index's match for the conditions that are not
\* equalities.  The source holds the Eq arm alone; index selection is
\* specified as driven by Eq only, so the other conditions select nothing.
OtherConditionSelects(cond) == FALSE

\* Whether condition i selects an index: it is an equality on a column of
\* the table that an index of the table is on.
Indexable(conds, i, target, table, schemas) ==
    IF conds[i].op = "Eq"
    THEN /\ conds[i].col \in DOMAIN table.columns
         /\ IndexesOn(schemas, target, table.columns[conds[i].col].name) # {}
    ELSE OtherConditionSelects(conds[i])

\* find_table_index: the (rootpage, search key) pairs it may return.  The
\* first condition that selects an index decides; which of several indexes
\* on its column is found first is the HashMap's iteration order.
find_table_index(conds, target, table, schemas) ==
    IF \E i \in 1..Len(conds) : Indexable(conds, i, target, table, schemas)
    THEN LET i == CHOOSE i \in 1..Len(conds) :
                    /\ Indexable(conds, i, target, table, schemas)
                    /\ \A j \in 1..(i - 1) : ~Indexable(conds, j, target, table, schemas)
         IN  {Some([idx |-> schemas[n].rootpage, key |-> conds[i].val]) :
                n \in IndexesOn(schemas, target, table.columns[conds[i].col].name)}
    ELSE {None}

\* The columns of a table in the order of idx.
RECURSIVE SortedColumns(_, _)
SortedColumns(columns, names) ==
    IF names = {} THEN <<>>
    ELSE LET n == CHOOSE n \in names : \A m \in names : columns[n].idx <= columns[m].idx
         IN  <<columns[n]>> \o SortedColumns(columns, names \ {n})

\* The named columns the table has, in the statement's order.
RECURSIVE NamedColumns(_, _)
NamedColumns(columns, cols) ==
    IF cols = <<>> THEN <<>>
    ELSE IF Head(cols) \in DOMAIN columns
         THEN <<columns[Head(cols)]>> \o NamedColumns(columns, Tail(cols))
    ELSE NamedColumns(columns, Tail(cols))

\* select giving the named columns in the order of idx.
selectNamedSorted(table, sel) ==
    CASE sel.columns.k = "Columns" ->
            SortedColumns(table.columns,
                          {n \in DOMAIN table.columns :
                              \E i \in 1..Len(sel.columns.cols) : sel.columns.cols[i] = n})
      [] sel.columns.k = "Count" -> <<>>
      [] OTHER -> SortedColumns(table.columns, DOMAIN table.columns)

\* Table::select
select(table, sel) ==
    CASE sel.columns.k = "Columns" -> NamedColumns(table.columns, sel.columns.cols)
      [] sel.columns.k = "Count" -> <<>>
      [] OTHER -> SortedColumns(table.columns, DOMAIN table.columns)

\* str::len: the bytes of the UTF-8 encoding.
RECURSIVE Utf8Len(_)
Utf8Len(chars) ==
    IF chars = <<>> THEN 0
    ELSE (IF Head(chars) < 128 THEN 1 ELSE IF Head(chars) < 2048 THEN 2
          ELSE IF Head(chars) < 65536 THEN 3 ELSE 4) + Utf8Len(Tail(chars))

MaxCellBytes == 10

\* truncate(s, max_chars): the first max_chars characters
truncate(chars, max_chars) ==
    IF Len(chars) > max_chars THEN SubSeq(chars, 1, max_chars) ELSE chars

\* The text of one cell of the printed table.
CellText(v) ==
    IF Utf8Len(to_string(v)) > MaxCellBytes
    THEN truncate(to_string(v), MaxCellBytes) \o <<46, 46, 46>>
    ELSE to_string(v)

\* print_rows: the header, the cells of every row and the row count; it
\* panics when a row has no value at a column's idx.
print_rows(rs, columns) ==
    IF \E i \in 1..Len(rs) : \E j \in 1..Len(columns) : columns[j].idx >= Len(rs[i])
    THEN Panic
    ELSE [st |-> "ok",
          header |-> [j \in 1..Len(columns) |-> columns[j].name],
          body |-> [i \in 1..Len(rs) |->
                      [j \in 1..Len(columns) |-> CellText(rs[i][columns[j].idx + 1])]],
          count |-> Len(rs)]

\* What run leaves behind: an error returned, a panic, the count printed,
\* or the table printed, with the walk that produced it.
RunErr(msg) == [st |-> "err", msg |-> msg]
RunPanic(search, walk) == [st |-> "panic", search |-> search, walk |-> walk]
RunCountOfLeaf(page) ==
    [st |-> "ok", kind |-> "count",
     count |-> IF page.kind = "TableLeaf" THEN page.cell_count ELSE 0,
     fetched |-> <<page.page_id>>]
RunCount(page) ==
    [st |-> "ok", kind |-> "count", count |-> page.cell_count, fetched |-> <<page.page_id>>]
RunRows(search, walk, printed) ==
    [st |-> "ok", kind |-> "rows", search |-> Some(search), walk |-> walk,
     header |-> printed.header, body |-> printed.body, count |-> printed.count]

\* run after print_rows.
RunPrinted(search, walk, printed) ==
    IF walk.st = "panic" \/ printed.st = "panic" THEN RunPanic(Some(search), walk)
    ELSE RunRows(search, walk, printed)

\* run after db.rows.
RunWalked(search, walk, columns) ==
    RunPrinted(search, walk, print_rows(walk.rows, columns))

\* run with the Search it builds given: the walk and the printing.
RunSearch(file, search, columns) == RunWalked(search, rows(file, search), columns)

\* run on the table's schema, with its Table parsed.
RunOn(stmt, file, found, schema, parsed) ==
    IF ~parsed.ok THEN RunErr("Failed to parse create statement")
    ELSE IF stmt.columns.k = "Count"
         THEN IF schema.rootpage = 0 THEN RunErr("invalid table rootpage")
              ELSE IF get_page(file, schema.rootpage).st = "panic"
                   THEN RunPanic(None, Panicked(<<schema.rootpage>>))
              ELSE RunCount(get_page(file, schema.rootpage).page)
    ELSE IF found.some /\ found.v.idx = 0 THEN RunErr("invalid index rootpage")
    ELSE IF ~found.some /\ schema.rootpage = 0 THEN RunErr("invalid index rootpage")
    ELSE RunSearch(file,
                   IF found.some
                   THEN [pgno |-> found.v.idx, key |-> Some(found.v.key),
                         indeces |-> None, schema |-> schema, conds |-> stmt.conds]
                   ELSE [pgno |-> schema.rootpage, key |-> None, indeces |-> None,
                         schema |-> schema, conds |-> stmt.conds],
                   select(parsed.table, stmt))

\* run with a name the catalogue does not hold taken for a table without
\* a root.
runUnknownAsRootless(stmt, file, found) ==
    IF stmt.name \notin DOMAIN get_schemas(file) THEN RunErr("invalid table rootpage")
    ELSE RunOn(stmt, file, found, get_schemas(file)[stmt.name],
               create_sql(get_schemas(file)[stmt.name].sql))

\* repl::run, with found the outcome of find_table_index.
run(stmt, file, found) ==
    IF stmt.name \notin DOMAIN get_schemas(file) THEN RunErr("no such table")
    ELSE RunOn(stmt, file, found, get_schemas(file)[stmt.name],
               create_sql(get_schemas(file)[stmt.name].sql))

\* The outcomes find_table_index may have for a statement.
Found(stmt, file) ==
    IF stmt.name \in DOMAIN get_schemas(file) /\ create_sql(get_schemas(file)[stmt.name].sql).ok
    THEN find_table_index(stmt.conds, stmt.name,
                          create_sql(get_schemas(file)[stmt.name].sql).table, get_schemas(file))
    ELSE {None}

(***************************************************************************)
(* The database writer.  The files the executor is run on are written from *)
(* a table's content as SQLite writes them: table t(id, c, d) with id the  *)
(* row id (stored as NULL), c a text and d an integer; its B-tree with at  *)
(* most cap rows on a leaf; and, when the table is indexed, the index on   *)
(* c with its entries (c, row id) in order, at most cap cells on an        *)
(* interior page and separators between the subtrees.  A tree's root is    *)
(* its first page and its subtrees follow it in order.                     *)
(***************************************************************************)
TableSql ==
    <<"CREATE TABLE", "t", "(", "id", "integer", "primary key", ",",
      "c", "text", ",", "d", "integer", ")">>

IndexSql == <<"CREATE INDEX", "idx_t_c", "on", "t", "(", "c", ")">>

\* The value of d in row i.
ColD(i) == i % 2

\* The logical row i of a content: what a correct reader returns for it.
LogicalRow(content, i) == <<Integer(NatWord(i)), Text(content.keys[i]), Integer(NatWord(ColD(i)))>>

TableLeafCell(content, i) ==
    [left_child_page |-> 0, row_id |-> NatWord(i),
     payload |-> EncodeRecord(<<0, 13 + 2 * Len(content.keys[i]), 8 + ColD(i)>>,
                              content.keys[i])]

IndexEntry(content, i) ==
    EncodeRecord(<<13 + 2 * Len(content.keys[i]), 1>>, content.keys[i] \o <<i>>)

Min(a, b) == IF a <= b THEN a ELSE b

RECURSIVE Concat(_)
Concat(seqs) == IF seqs = <<>> THEN <<>> ELSE Head(seqs) \o Concat(Tail(seqs))

RECURSIVE SumTo(_, _)
SumTo(f, n) == IF n = 0 THEN 0 ELSE f[n] + SumTo(f, n - 1)

\* The pages of the table B-tree over the rows is (row numbers, ascending),
\* the root at page number base.
RECURSIVE TablePages(_, _, _, _)
TablePages(content, is, cap, base) ==
    IF Len(is) <= cap
    THEN <<[kind |-> 13, rightmost_pointer |-> 0,
            cells |-> [k \in 1..Len(is) |-> TableLeafCell(content, is[k])]]>>
    ELSE LET per == (Len(is) + cap) \div (cap + 1)
             nch == (Len(is) + per - 1) \div per
             group == [j \in 1..nch |-> SubSeq(is, (j - 1) * per + 1, Min(j * per, Len(is)))]
             size == [j \in 1..nch |-> Len(TablePages(content, group[j], cap, 0))]
             start == [j \in 1..nch |-> base + 1 + SumTo(size, j - 1)]
         IN  <<[kind |-> 5, rightmost_pointer |-> start[nch],
                cells |-> [j \in 1..(nch - 1) |->
                             [left_child_page |-> start[j],
                              row_id |-> NatWord(group[j][Len(group[j])]),
                              payload |-> <<>>]]]>>
             \o Concat([j \in 1..nch |-> TablePages(content, group[j], cap, start[j])])

\* The pages of the index B-tree over the entries es (row numbers, in the
\* index's order), the root at page number base.
RECURSIVE IndexPages(_, _, _, _)
IndexPages(content, es, cap, base) ==
    IF Len(es) <= cap + 1
    THEN <<[kind |-> 10, rightmost_pointer |-> 0,
            cells |-> [k \in 1..Len(es) |->
                         [left_child_page |-> 0, row_id |-> Zero64,
                          payload |-> IndexEntry(content, es[k])]]]>>
    ELSE LET m == Min(cap, (Len(es) - 1) \div 2)
             q == (Len(es) - m) \div (m + 1)
             extra == (Len(es) - m) % (m + 1)
             sz == [j \in 1..(m + 1) |-> IF j <= extra THEN q + 1 ELSE q]
             off == [j \in 1..(m + 1) |-> j + SumTo(sz, j - 1)]
             group == [j \in 1..(m + 1) |-> SubSeq(es, off[j], off[j] + sz[j] - 1)]
             size == [j \in 1..(m + 1) |-> Len(IndexPages(content, group[j], cap, 0))]
             start == [j \in 1..(m + 1) |-> base + 1 + SumTo(size, j - 1)]
         IN  <<[kind |-> 2, rightmost_pointer |-> start[m + 1],
                cells |-> [j \in 1..m |->
                             [left_child_page |-> start[j], row_id |-> Zero64,
                              payload |-> IndexEntry(content, es[off[j] + sz[j]])]]]>>
             \o Concat([j \in 1..(m + 1) |-> IndexPages(content, group[j], cap, start[j])])

\* The rows of a content in the index's order: by c, then by row id.
Before(content, i, j) ==
    \/ StrLess(content.keys[i], content.keys[j])
    \/ content.keys[i] = content.keys[j] /\ i < j

IndexOrder(content) ==
    [k \in 1..Len(content.keys) |->
        CHOOSE i \in 1..Len(content.keys) :
            Cardinality({j \in 1..Len(content.keys) : Before(content, j, i)}) = k - 1]

\* The file written for a content: page 1 is the catalogue, the table's
\* root is page 2 and the index follows the table.
FileOf(content) ==
    LET n == Len(content.keys)
        tp == TablePages(content, [i \in 1..n |-> i], content.cap, 2)
        ip == IF content.indexed
              THEN IndexPages(content, IndexOrder(content), content.cap, 2 + Len(tp))
              ELSE <<>>
        all == tp \o ip
    IN  [catalog |->
            <<[stype |-> "table", name |-> "t", table_name |-> "t", rootpage |-> 2,
               sql |-> TableSql]>>
            \o (IF content.indexed
                THEN <<[stype |-> "index", name |-> "idx_t_c", table_name |-> "t",
                        rootpage |-> 2 + Len(tp), sql |-> IndexSql]>>
                ELSE <<>>),
         pages |-> [p \in 2..(Len(all) + 1) |-> all[p - 1]]]

(***************************************************************************)
(* The REPL session: a database file is loaded and SELECT statements are   *)
(* run on it.                                                              *)
(***************************************************************************)
MaxRows == 5
MaxRuns == 2

KeyA == <<97>>
KeyB == <<98>>
Keys == {KeyA, KeyB}

\* The tables: up to MaxRows rows, every row's c one of the keys.
RECURSIVE KeySeqs(_)
KeySeqs(n) ==
    IF n = 0 THEN {<<>>}
    ELSE KeySeqs(n - 1) \cup {Append(ks, k) : ks \in {x \in KeySeqs(n - 1) : Len(x) = n - 1},
                                              k \in Keys}

\* The page capacities the files are written with: leaves of one row,
\* leaves of two rows, and everything on one leaf.
Caps == {1, 2, MaxRows}

\* The leaf pages of the table below the root.
TableLeaves(f) == {p \in DOMAIN f.pages : p # 2 /\ f.pages[p].kind = 13}

\* The first page number past the end of the file.
PastEnd(f) == Cardinality(DOMAIN f.pages) + 2

\* A file with one page damaged: the page's first byte is no page kind, or
\* the pointer that leads to the page points past the end of the file.
Damaged(f, damage) ==
    IF ~damage.some THEN f
    ELSE IF damage.v.how = "kind"
         THEN [f EXCEPT !.pages[damage.v.page].kind = 0]
    ELSE [f EXCEPT !.pages =
            [p \in DOMAIN f.pages |->
                [f.pages[p] EXCEPT
                    !.rightmost_pointer =
                        IF @ = damage.v.page THEN PastEnd(f) ELSE @,
                    !.cells =
                        [k \in 1..Len(f.pages[p].cells) |->
                            [f.pages[p].cells[k] EXCEPT
                                !.left_child_page =
                                    IF @ = damage.v.page THEN PastEnd(f) ELSE @]]]]]

\* The damage a content's file may carry: none, or its first table leaf
\* below the root, in a table that has no index.
Damages(keys, cap, indexed) ==
    LET f == FileOf([keys |-> keys, cap |-> cap, indexed |-> indexed])
    IN  {None} \cup
        (IF ~indexed /\ TableLeaves(f) # {}
         THEN {Some([page |-> CHOOSE p \in TableLeaves(f) : \A q \in TableLeaves(f) : p <= q,
                     how |-> how]) : how \in {"kind", "past"}}
         ELSE {})

Contents ==
    {[keys |-> ks, cap |-> cap, indexed |-> ix, damage |-> dm] :
        ks \in KeySeqs(MaxRows), cap \in Caps, ix \in BOOLEAN, dm \in {None} \cup
            {Some([page |-> pg, how |-> how]) : pg \in 3..4, how \in {"kind", "past"}}}

WellFormedContents ==
    {c \in Contents : c.damage \in Damages(c.keys, c.cap, c.indexed)}

Cond(op, col, val) == [op |-> op, col |-> col, val |-> val, to |-> <<>>]

CondLists ==
    {<<>>,
     <<Cond("Eq", "c", KeyA)>>,
     <<Cond("Eq", "c", KeyB)>>,
     <<Cond("Eq", "d", <<49>>)>>,
     <<Cond("Eq", "c", KeyA), Cond("Eq", "d", <<49>>)>>,
     <<Cond("Ne", "d", <<49>>), Cond("Eq", "c", KeyB)>>}

All == [k |-> "All", cols |-> <<>>]
Count == [k |-> "Count", cols |-> <<>>]
Columns(cols) == [k |-> "Columns", cols |-> cols]

ColumnLists == {All, Count, Columns(<<"c">>), Columns(<<"d", "id">>)}

Init ==
    /\ given \in WellFormedContents
    /\ db = Damaged(FileOf(given), given.damage)
    /\ log = <<>>
    /\ varintIn = NoCall
    /\ varintOut = NoCall
    /\ recIn = NoCall
    /\ recOut = NoCall

\* Command::Sql(stmt) on the loaded database: repl::run(stmt, db).
Run(stmt) ==
    /\ \E found \in Found(stmt, db) :
            log' = Append(log, [stmt |-> stmt, out |-> run(stmt, db, found)])
    /\ UNCHANGED <<given, db, varintIn, varintOut, recIn, recOut>>

\* The first statement of the session.
RunFirst ==
    /\ log = <<>>
    /\ \E cols \in ColumnLists, conds \in CondLists :
            Run([name |-> "t", columns |-> cols, conds |-> conds])

\* After a SELECT *, the same rows are asked for with other columns.
RunProjection ==
    /\ Len(log) = 1 /\ Len(log) < MaxRuns
    /\ log[1].stmt.columns = All
    /\ \E cols \in ColumnLists \ {All} :
            Run([log[1].stmt EXCEPT !.columns = cols])

Next == RunFirst \/ RunProjection

Spec == Init /\ [][Next]_vars

(***************************************************************************)
(* Database::rows on its own: one walk, started at the root of the table   *)
(* with any combination of row-id list, key and conditions, or at the root *)
(* of the index with a key, on a well-formed file.                         *)
(***************************************************************************)
MaxEntries == 7

KeyC == <<99>>

\* The sorted row-id lists a walk of the table is given.
IdLists == {<<>>, <<1>>, <<2>>, <<3>>, <<2, 3>>, <<1, 4>>, <<4, 5>>}

WordsOf(ids) == [k \in 1..Len(ids) |-> NatWord(ids[k])]

\* The table of n rows walked: every third row's c is b, the others' a.
WalkedKeys(n) == [i \in 1..n |-> IF i % 3 = 0 THEN KeyB ELSE KeyA]

\* The walks of a table of up to MaxRows rows from its root.
TableWalks ==
    {[called |-> TRUE, at |-> "table",
      content |-> [keys |-> WalkedKeys(n), cap |-> cap, indexed |-> FALSE, damage |-> None],
      key |-> key, indeces |-> ids, conds |-> conds] :
        n \in 0..MaxRows, cap \in Caps,
        key \in {None, Some(<<50>>)},
        ids \in {None} \cup {Some(WordsOf(l)) : l \in IdLists},
        conds \in {<<>>, <<Cond("Eq", "d", <<49>>)>>, <<Cond("Eq", "c", KeyA)>>}}

\* The tables indexed: na rows whose c is a, then nb rows whose c is b.
IndexedKeys(na, nb) == [i \in 1..(na + nb) |-> IF i <= na THEN KeyA ELSE KeyB]

\* The walks of an index of up to MaxEntries entries from its root; the
\* index pages hold up to 1, 2 or 3 separators.
IndexWalks ==
    {[called |-> TRUE, at |-> "index",
      content |-> [keys |-> IndexedKeys(na, nb), cap |-> cap, indexed |-> TRUE,
                   damage |-> None],
      key |-> Some(key), indeces |-> None, conds |-> <<Cond("Eq", "c", key)>>] :
        na \in 0..MaxEntries, nb \in 0..MaxEntries, cap \in 1..3,
        key \in {KeyA, KeyB, KeyC}}

WalkInit ==
    /\ given \in TableWalks \cup {w \in IndexWalks : Len(w.content.keys) <= MaxEntries}
    /\ db = FileOf(given.content)
    /\ log = <<>>
    /\ varintIn = NoCall
    /\ varintOut = NoCall
    /\ recIn = NoCall
    /\ recOut = NoCall

\* The Search of a walk from page pgno of a file.
SearchAt(file, pgno, w) ==
    [pgno |-> pgno, key |-> w.key, indeces |-> w.indeces,
     schema |-> get_schemas(file)["t"], conds |-> w.conds]

RECURSIVE IndexInteriorTrace(_, _, _, _)

\* The iteration without the loop's break.
IndexInteriorTraceCellNoBreak(search, page, i, left_key, t, next) ==
    IF t.st # "ok" \/ t.row = <<>> THEN <<>>
    ELSE <<[i |-> i, left_key |-> left_key, row_key |-> Some(to_string(t.row[1])),
            descended |-> /\ left_key.some => StrLe(left_key.v, search.key.v)
                          /\ StrLe(search.key.v, to_string(t.row[1]))
                          /\ next.some]>>
           \o IndexInteriorTrace(search, page, i + 1, Some(to_string(t.row[1])))

\* One iteration of the IndexInterior arm's loop, as the loop's own state:
\* the cell examined, left_key when it is reached, its key, and whether its
\* left child is descended.  t is the cell's row decoded and next its left
\* child.
IndexInteriorTraceCell(search, page, i, left_key, t, next) ==
    IF t.st = "panic" THEN <<>>
    ELSE IF t.st = "err" \/ t.row = <<>>
         THEN <<[i |-> i, left_key |-> left_key, row_key |-> None, descended |-> FALSE]>>
                \o IndexInteriorTrace(search, page, i + 1, left_key)
    ELSE IF (left_key.some => StrLe(left_key.v, search.key.v))
               /\ StrLe(search.key.v, to_string(t.row[1]))
         THEN IF ~next.some
              THEN <<[i |-> i, left_key |-> left_key, row_key |-> Some(to_string(t.row[1])),
                      descended |-> FALSE]>>
                     \o IndexInteriorTrace(search, page, i + 1, left_key)
              ELSE <<[i |-> i, left_key |-> left_key, row_key |-> Some(to_string(t.row[1])),
                      descended |-> TRUE]>>
                     \o (IF left_key.some /\ left_key.v = search.key.v THEN <<>>
                         ELSE IndexInteriorTrace(search, page, i + 1,
                                                 Some(to_string(t.row[1]))))
    ELSE <<[i |-> i, left_key |-> left_key, row_key |-> Some(to_string(t.row[1])),
            descended |-> FALSE]>>
           \o (IF left_key.some /\ left_key.v = search.key.v THEN <<>>
               ELSE IndexInteriorTrace(search, page, i + 1, Some(to_string(t.row[1]))))

\* The iterations of the IndexInterior arm's loop from cell i on.
IndexInteriorTrace(search, page, i, left_key) ==
    IF i > page.cell_count THEN <<>>
    ELSE IndexInteriorTraceCell(search, page, i, left_key, TryFromCell(CellAt(page, i)),
                                CellNextPage(CellAt(page, i)))

\* The loop of the walk's first page, when that page is an IndexInterior
\* page and the arm enters its loop.
TraceOf(search, got) ==
    IF got.st = "ok" /\ got.page.kind = "IndexInterior"
          /\ search.key.some /\ search.schema.rootpage # 0
    THEN IndexInteriorTrace(search, got.page, 1, None)
    ELSE <<>>

\* db.rows(search)
Walk(search) ==
    /\ log = <<>>
    /\ log' = <<[search |-> search, walk |-> rows(db, search),
                 trace |-> TraceOf(search, get_page(db, search.pgno))]>>
    /\ UNCHANGED <<given, db, varintIn, varintOut, recIn, recOut>>

\* The walk starts at the table's root.
WalkTable ==
    /\ given.at = "table"
    /\ Walk(SearchAt(db, get_schemas(db)["t"].rootpage, given))

\* The walk starts at the index's root.
WalkIndex ==
    /\ given.at = "index"
    /\ Walk(SearchAt(db, get_schemas(db)["idx_t_c"].rootpage, given))

WalkNext == WalkTable \/ WalkIndex

SpecWalk == WalkInit /\ [][WalkNext]_vars


(***************************************************************************)
(* Database::rows on an index of height three: the index's root has two    *)
(* separators, and so has every interior page below it.                    *)
(***************************************************************************)
DeepEntries == 17

\* The walks of an index of DeepEntries entries, or one fewer, from its
\* root: its pages hold up to two separators and its leaves up to three
\* entries, which makes three levels.
DeepWalks ==
    {[called |-> TRUE, at |-> "index",
      content |-> [keys |-> IndexedKeys(Min(na, n), n - Min(na, n)), cap |-> 2, indexed |-> TRUE,
                   damage |-> None],
      key |-> Some(key), indeces |-> None, conds |-> <<Cond("Eq", "c", key)>>] :
        n \in (DeepEntries - 1)..DeepEntries, na \in 0..DeepEntries,
        key \in {KeyA, KeyB, KeyC}}

DeepInit ==
    /\ given \in DeepWalks
    /\ db = FileOf(given.content)
    /\ log = <<>>
    /\ varintIn = NoCall
    /\ varintOut = NoCall
    /\ recIn = NoCall
    /\ recOut = NoCall

SpecDeep == DeepInit /\ [][WalkIndex]_vars


(***************************************************************************)
(* sqlite/db.rs: Database::rows call by call.  The state is the call       *)
(* stack: below the calls of rows stands the caller's frame, which holds   *)
(* what the walk has fetched and returned; a call of rows holds its        *)
(* Search, its position and the locals of its arm.                         *)
(***************************************************************************)

\* A call of rows on entry.
RowsCall(search) ==
    [search |-> search, at |-> "get_page", i |-> 1, left_key |-> None,
     indices |-> <<>>, rows |-> <<>>, row |-> <<>>, joins |-> 0]

\* The stack with its top frame replaced.
WithTop(stack, frame) == [stack EXCEPT ![Len(stack)] = frame]

\* self.rows(next) called by the top frame, which waits at position at.
CallRows(stack, frame, at, next) ==
    Append(WithTop(stack, [frame EXCEPT !.at = at]), RowsCall(next))

\* A panic unwinds every call.
Abort(stack) == <<[stack[1] EXCEPT !.at = "panic"]>>

\* match self.get_page(search.pgno): the page is fetched and the arm of its
\* kind chosen.
GetPageStep(stack, frame, got) ==
    IF got.st = "panic" THEN Abort(stack)
    ELSE IF got.page.kind = "IndexInterior"
            /\ ~(frame.search.key.some /\ frame.search.schema.rootpage # 0)
         THEN WithTop(stack, [frame EXCEPT !.at = "return"])
    ELSE WithTop(stack, [frame EXCEPT !.at = "cells"])

\* The leaf arm at cell i: kept is the cell's row if the closure keeps it.
LeafStep(stack, frame, page, kept) ==
    IF frame.i > page.cell_count THEN WithTop(stack, [frame EXCEPT !.at = "return"])
    ELSE IF kept.st = "panic" THEN Abort(stack)
    ELSE WithTop(stack, [frame EXCEPT !.rows = @ \o kept.rows, !.i = @ + 1])

\* The TableInterior arm at cell i, or past the last cell at the rightmost
\* pointer.
TableInteriorStep(stack, frame, page) ==
    IF frame.i > page.cell_count
    THEN IF page.rightmost_pointer # 0
         THEN CallRows(stack, frame, "rightmost",
                       next_page(frame.search, page.rightmost_pointer))
         ELSE WithTop(stack, [frame EXCEPT !.at = "return"])
    ELSE IF ~CellNextPage(CellAt(page, frame.i)).some
         THEN WithTop(stack, [frame EXCEPT !.i = @ + 1])
    ELSE IF /\ frame.search.indeces.some
            /\ binary_search(frame.search.indeces.v, CellAt(page, frame.i).row_id)
         THEN CallRows(stack, frame, "pruned",
                       next_page(frame.search, CellNextPage(CellAt(page, frame.i)).v))
    ELSE CallRows(stack, frame, "cell",
                  next_page(frame.search, CellNextPage(CellAt(page, frame.i)).v))

\* One iteration of the IndexInterior arm's loop up to its call of rows: t
\* is the cell's row decoded, row_key its first value as text and next the
\* cell's left child.
IndexInteriorCellStep(stack, frame, t, row_key, next) ==
    IF t.st = "panic" THEN Abort(stack)
    ELSE IF t.st = "err" \/ t.row = <<>>
         THEN WithTop(stack, [frame EXCEPT !.i = @ + 1])
    ELSE IF frame.left_key.some
         THEN IF /\ StrLe(frame.left_key.v, frame.search.key.v)
                 /\ StrLe(frame.search.key.v, row_key)
              THEN IF next.some
                   THEN CallRows(stack, [frame EXCEPT !.row = t.row], "range",
                                 next_page(frame.search, next.v))
                   ELSE WithTop(stack, [frame EXCEPT !.i = @ + 1])
              ELSE IF frame.left_key.v = frame.search.key.v
                   THEN WithTop(stack, [frame EXCEPT !.at = "join"])
                   ELSE WithTop(stack, [frame EXCEPT !.left_key = Some(row_key),
                                                     !.i = @ + 1])
    ELSE IF StrLe(frame.search.key.v, row_key)
         THEN IF next.some
              THEN CallRows(stack, [frame EXCEPT !.row = t.row], "first",
                            next_page(frame.search, next.v))
              ELSE WithTop(stack, [frame EXCEPT !.i = @ + 1])
    ELSE WithTop(stack, [frame EXCEPT !.left_key = Some(row_key), !.i = @ + 1])

\* The IndexInterior arm at cell i, or past the last cell.
IndexInteriorStep(stack, frame, page) ==
    IF frame.i > page.cell_count THEN WithTop(stack, [frame EXCEPT !.at = "join"])
    ELSE IndexInteriorCellStep(stack, frame, TryFromCell(CellAt(page, frame.i)),
                               to_string(TryFromCell(CellAt(page, frame.i)).row[1]),
                               CellNextPage(CellAt(page, frame.i)))

\* if indices.len() > 0: the table is walked from its root with the list.
JoinStep(stack, frame) ==
    IF frame.indices # <<>>
    THEN CallRows([stack EXCEPT ![1].joins = @ + 1],
                  [frame EXCEPT !.joins = @ + 1], "joined",
                  [pgno |-> frame.search.schema.rootpage, key |-> None,
                   indeces |-> Some(frame.indices), schema |-> frame.search.schema,
                   conds |-> frame.search.conds])
    ELSE WithTop(stack, [frame EXCEPT !.at = "return"])

\* The return into a call that consumes its list one row id a walk.
ReturnToJoinEach(caller, r) ==
    IF caller.at = "joined"
    THEN [caller EXCEPT !.at = "join", !.rows = @ \o r, !.indices = Tail(@)]
    ELSE [caller EXCEPT !.at = "return", !.rows = @ \o r]

\* A call of rows returns r: the caller goes on from the position where it
\* waits.
ReturnTo(caller, r) ==
    CASE caller.at = "pruned" -> [caller EXCEPT !.at = "return", !.rows = r]
      [] caller.at = "cell" ->
            [caller EXCEPT !.at = "cells", !.rows = @ \o r, !.i = @ + 1]
      [] caller.at = "rightmost" -> [caller EXCEPT !.at = "return", !.rows = @ \o r]
      [] caller.at = "range" ->
            IF caller.left_key.v = caller.search.key.v
            THEN [caller EXCEPT !.at = "join",
                    !.indices = @ \o RowIndeces(
                        IF to_string(caller.row[1]) = caller.search.key.v
                        THEN Append(r, caller.row) ELSE r)]
            ELSE [caller EXCEPT !.at = "cells", !.i = @ + 1,
                    !.left_key = Some(to_string(caller.row[1])),
                    !.indices = @ \o RowIndeces(
                        IF to_string(caller.row[1]) = caller.search.key.v
                        THEN Append(r, caller.row) ELSE r)]
      [] caller.at = "first" ->
            [caller EXCEPT !.at = "cells", !.i = @ + 1, !.rows = @ \o r,
                           !.left_key = Some(to_string(caller.row[1]))]
      [] caller.at = "joined" -> [caller EXCEPT !.at = "return", !.rows = @ \o r]
      [] OTHER -> [caller EXCEPT !.at = "done", !.rows = r]

\* The walks taken call by call: the walks of a table under a row-id list,
\* of an index of two levels, and of an index of three.
StackWalks ==
    {w \in TableWalks : ~w.key.some /\ w.conds = <<>>}
    \cup {w \in IndexWalks : Len(w.content.keys) <= MaxEntries}
    \cup DeepWalks

StackInit ==
    /\ given \in StackWalks
    /\ db = FileOf(given.content)
    /\ log = <<>>
    /\ varintIn = NoCall
    /\ varintOut = NoCall
    /\ recIn = NoCall
    /\ recOut = NoCall

Top == log[Len(log)]

\* One more step of the walk taken.
Tick(stack) == [stack EXCEPT ![1].steps = @ + 1]

\* db.rows(search), called by repl::run.
CallWalk ==
    /\ log = <<>>
    /\ log' = <<[at |-> "run", rows |-> <<>>, fetched |-> <<>>, joins |-> 0, steps |-> 0],
                RowsCall(SearchAt(db, get_schemas(db)[IF given.at = "table" THEN "t"
                                                      ELSE "idx_t_c"].rootpage, given))>>
    /\ UNCHANGED <<given, db, varintIn, varintOut, recIn, recOut>>

GetPage ==
    /\ Len(log) > 1 /\ Top.at = "get_page"
    /\ log' = Tick(GetPageStep([log EXCEPT ![1].fetched = Append(@, Top.search.pgno)],
                               Top, get_page(db, Top.search.pgno)))
    /\ UNCHANGED <<given, db, varintIn, varintOut, recIn, recOut>>

TableInteriorCells ==
    /\ Len(log) > 1 /\ Top.at = "cells"
    /\ get_page(db, Top.search.pgno).page.kind = "TableInterior"
    /\ log' = Tick(TableInteriorStep(log, Top, get_page(db, Top.search.pgno).page))
    /\ UNCHANGED <<given, db, varintIn, varintOut, recIn, recOut>>

IndexInteriorCells ==
    /\ Len(log) > 1 /\ Top.at = "cells"
    /\ get_page(db, Top.search.pgno).page.kind = "IndexInterior"
    /\ log' = Tick(IndexInteriorStep(log, Top, get_page(db, Top.search.pgno).page))
    /\ UNCHANGED <<given, db, varintIn, varintOut, recIn, recOut>>

LeafCells ==
    /\ Len(log) > 1 /\ Top.at = "cells"
    /\ get_page(db, Top.search.pgno).page.kind \in {"TableLeaf", "IndexLeaf"}
    /\ log' = Tick(LeafStep(log, Top, get_page(db, Top.search.pgno).page,
                    LeafCell(Top.search, CellAt(get_page(db, Top.search.pgno).page, Top.i),
                             TryFromCell(CellAt(get_page(db, Top.search.pgno).page, Top.i)),
                             Rows(<<>>, <<>>))))
    /\ UNCHANGED <<given, db, varintIn, varintOut, recIn, recOut>>

Join ==
    /\ Len(log) > 1 /\ Top.at = "join"
    /\ log' = Tick(JoinStep(log, Top))
    /\ UNCHANGED <<given, db, varintIn, varintOut, recIn, recOut>>

Return ==
    /\ Len(log) > 1 /\ Top.at = "return"
    /\ log' = Tick(Append(SubSeq(log, 1, Len(log) - 2),
                        ReturnTo(log[Len(log) - 1], Top.rows)))
    /\ UNCHANGED <<given, db, varintIn, varintOut, recIn, recOut>>

StackNext ==
    \/ CallWalk \/ GetPage \/ TableInteriorCells \/ IndexInteriorCells \/ LeafCells
    \/ Join \/ Return

SpecStack == StackInit /\ [][StackNext]_vars

(***************************************************************************)
(* Sessions on catalogues of several shapes: table t alone, t with one     *)
(* index on c, with two indexes on c written with different page           *)
(* capacities, with an index whose statement the grammar does not parse,   *)
(* with a second table u that has an index of its own, and t with a        *)
(* rootpage of 0.                                                          *)
(***************************************************************************)
MaxStatements == 3

TableObj(name, sql, tree, cap, zero) ==
    [stype |-> "table", name |-> name, table_name |-> name, sql |-> sql,
     tree |-> tree, cap |-> cap, zero |-> zero]

IndexObj(name, table_name, sql, tree, cap) ==
    [stype |-> "index", name |-> name, table_name |-> table_name, sql |-> sql,
     tree |-> tree, cap |-> cap, zero |-> FALSE]

IndexSql2 == <<"CREATE INDEX", "idx_t_c2", "on", "t", "(", "c", ")">>
DescIndexSql == <<"CREATE INDEX", "idx_t_c", "on", "t", "(", "c", "desc", ")">>
TableSqlU ==
    <<"CREATE TABLE", "u", "(", "id", "integer", "primary key", ",",
      "c", "text", ",", "d", "integer", ")">>
IndexSqlU == <<"CREATE INDEX", "idx_u_c", "on", "u", "(", "c", ")">>

Shapes == {"plain", "indexed", "twice", "desc", "other", "zero"}

\* The objects of a catalogue of a shape, t written with cap rows a page.
ObjectsOf(shape, cap) ==
    CASE shape = "plain" -> <<TableObj("t", TableSql, "rows", cap, FALSE)>>
      [] shape = "indexed" ->
            <<TableObj("t", TableSql, "rows", cap, FALSE),
              IndexObj("idx_t_c", "t", IndexSql, "entries", cap)>>
      [] shape = "twice" ->
            <<TableObj("t", TableSql, "rows", cap, FALSE),
              IndexObj("idx_t_c", "t", IndexSql, "entries", 1),
              IndexObj("idx_t_c2", "t", IndexSql2, "entries", MaxRows)>>
      [] shape = "desc" ->
            <<TableObj("t", TableSql, "rows", cap, FALSE),
              IndexObj("idx_t_c", "t", DescIndexSql, "entries desc", cap)>>
      [] shape = "other" ->
            <<TableObj("t", TableSql, "rows", cap, FALSE),
              TableObj("u", TableSqlU, "empty", cap, FALSE),
              IndexObj("idx_u_c", "u", IndexSqlU, "empty", cap)>>
      [] shape = "zero" -> <<TableObj("t", TableSql, "rows", cap, TRUE)>>

\* The rows of a content in the order of an index on c desc.
DescOrder(content) ==
    [k \in 1..Len(content.keys) |->
        CHOOSE i \in 1..Len(content.keys) :
            Cardinality({j \in 1..Len(content.keys) :
                            \/ StrLess(content.keys[i], content.keys[j])
                            \/ content.keys[i] = content.keys[j] /\ j < i}) = k - 1]

\* The pages of an object's B-tree, its root at page number base.
ObjectPages(content, obj, base) ==
    CASE obj.tree = "rows" ->
            TablePages(content, [i \in 1..Len(content.keys) |-> i], obj.cap, base)
      [] obj.tree = "entries" -> IndexPages(content, IndexOrder(content), obj.cap, base)
      [] obj.tree = "entries desc" -> IndexPages(content, DescOrder(content), obj.cap, base)
      [] obj.stype = "table" -> <<[kind |-> 13, rightmost_pointer |-> 0, cells |-> <<>>]>>
      [] OTHER -> <<[kind |-> 10, rightmost_pointer |-> 0, cells |-> <<>>]>>

\* The catalogue rows and the pages of the objects, the first at page base.
RECURSIVE Written(_, _, _)
WrittenAfter(content, objs, base, pages) ==
    [catalog |-> <<[stype |-> objs[1].stype, name |-> objs[1].name,
                    table_name |-> objs[1].table_name,
                    rootpage |-> IF objs[1].zero THEN 0 ELSE base,
                    sql |-> objs[1].sql]>>
                    \o Written(content, Tail(objs), base + Len(pages)).catalog,
     pages |-> pages \o Written(content, Tail(objs), base + Len(pages)).pages]

Written(content, objs, base) ==
    IF objs = <<>> THEN [catalog |-> <<>>, pages |-> <<>>]
    ELSE WrittenAfter(content, objs, base, ObjectPages(content, objs[1], base))

FileOfWritten(w) ==
    [catalog |-> w.catalog, pages |-> [p \in 2..(Len(w.pages) + 1) |-> w.pages[p - 1]]]

\* The file of a catalogue of a shape over a content.
CatalogFile(c) == FileOfWritten(Written(c, ObjectsOf(c.shape, c.cap), 2))

CatalogContents ==
    {[keys |-> WalkedKeys(n), cap |-> cap, shape |-> shape, damage |-> None] :
        n \in {2, MaxRows}, cap \in {1, MaxRows}, shape \in Shapes}

\* The statements of the sessions: on t or on u, every kind of column list,
\* and conditions in which the first equality on an indexed column comes
\* first, after another operator, after an unknown column or after d.
CatalogCondLists ==
    {<<>>,
     <<Cond("Eq", "c", KeyA)>>,
     <<Cond("GreaterEq", "c", KeyA)>>,
     <<Cond("Less", "c", KeyB), Cond("Eq", "c", KeyA)>>,
     <<Cond("Eq", "x", KeyB), Cond("Eq", "c", KeyA)>>,
     <<Cond("Eq", "d", <<49>>), Cond("Eq", "c", KeyB)>>}

Statements ==
    {[name |-> name, columns |-> cols, conds |-> conds] :
        name \in {"t", "u"}, cols \in {All, Count, Columns(<<"c">>)},
        conds \in CatalogCondLists}

CatalogInit ==
    /\ given \in CatalogContents
    /\ db = CatalogFile(given)
    /\ log = <<>>
    /\ varintIn = NoCall
    /\ varintOut = NoCall
    /\ recIn = NoCall
    /\ recOut = NoCall

\* The program is still running: no statement has panicked.
Running == \A k \in 1..Len(log) : log[k].out.st # "panic"

\* The first statement of a session.
RunStatement ==
    /\ log = <<>>
    /\ \E stmt \in Statements : Run(stmt)

\* Another statement after the first: a full scan of t.
RunScan ==
    /\ Len(log) = 1 /\ Running
    /\ Run([name |-> "t", columns |-> All, conds |-> <<>>])

\* The session's first statement is entered again.
RunAgain ==
    /\ Len(log) \in 1..(MaxStatements - 1) /\ Running
    /\ Run(log[1].stmt)

CatalogNext == RunStatement \/ RunScan \/ RunAgain

SpecCatalog == CatalogInit /\ [][CatalogNext]_vars

(***************************************************************************)
(* The u64 values the codec is exercised on: for every bit length 0..64,   *)
(* the value with only its top bit set, with every bit set, with the top   *)
(* and the bottom bit set, and with alternating bits.                      *)
(***************************************************************************)
Fills == {"top", "ones", "ends", "alt"}

WordOf(len, fill) ==
    [i \in 1..W64 |->
        LET p == W64 + 1 - i   \* 1 = least significant
        IN  IF p > len THEN 0
            ELSE IF p = len THEN 1
            ELSE CASE fill = "top" -> 0
                   [] fill = "ones" -> 1
                   [] fill = "ends" -> IF p = 1 THEN 1 ELSE 0
                   [] OTHER -> (len - p) % 2]

Words == {WordOf(len, f) : len \in 0..W64, f \in Fills}

\* The bytes that may follow an encoding in the input.
MaxRest == 2
RestBytes == {0, 127, 128, 255}
Rests == UNION {[1..k -> RestBytes] : k \in 0..MaxRest}

(***************************************************************************)
(* The varint specification: an encoded value followed by arbitrary bytes  *)
(* is decoded once.                                                        *)
(***************************************************************************)
VarintInit ==
    /\ varintIn \in {[n |-> n, rest |-> r] : n \in Words, r \in Rests}
    /\ varintOut = NoCall
    /\ recIn = NoCall
    /\ recOut = NoCall
    /\ given = NoCall
    /\ db = NoCall
    /\ log = <<>>

VarintDecode ==
    /\ ~varintOut.called
    /\ varintOut' = [called |-> TRUE,
                     ret |-> varint(EncodeVarint(varintIn.n) \o varintIn.rest)]
    /\ UNCHANGED <<varintIn, recIn, recOut, given, db, log>>

VarintNext == VarintDecode

SpecVarint == VarintInit /\ [][VarintNext]_vars

(***************************************************************************)
(* The record specification: a cell of any kind, carrying a record of one  *)
(* or two serial types over a body of any length up to MaxBody, has its    *)
(* first value decoded by RecordCode::parse and is converted to a row.     *)
(***************************************************************************)
MaxSerialType == 17
MaxBody == 9
SecondTypes == {0, 1, 11, 15}
BodyPatterns == {1, 128}

TypeSeqs ==
    {<<a>> : a \in 0..MaxSerialType}
        \cup {<<a, b>> : a \in 0..MaxSerialType, b \in SecondTypes}

BodyOf(p, len) == [i \in 1..len |-> (p + 37 * (i - 1)) % 256]
Bodies == {BodyOf(p, len) : p \in BodyPatterns, len \in 0..MaxBody}

CellKinds == {"TableLeaf", "TableInterior", "IndexLeaf", "IndexInterior"}
RowIds == {WordOf(1, "top"), WordOf(9, "alt"), WordOf(64, "ones")}

\* The cell recIn describes.
CellOf(in) ==
    [kind |-> in.kind,
     row_id |-> in.row_id,
     left_child_page |-> 2,
     payload |-> EncodeRecord(in.types, in.body)]

RecordInit ==
    /\ recIn \in {[called |-> TRUE, kind |-> k, row_id |-> r, types |-> ts, body |-> b] :
                    k \in CellKinds, r \in RowIds, ts \in TypeSeqs, b \in Bodies}
    /\ recOut = NoCall
    /\ varintIn = NoCall
    /\ varintOut = NoCall
    /\ given = NoCall
    /\ db = NoCall
    /\ log = <<>>

\* RecordCode::from(first serial type).parse(body)
DecodeValue ==
    /\ ~recOut.called
    /\ RecordCodeFrom(NatWord(recIn.types[1])).tag # "panic"
    /\ recOut' = [called |-> TRUE, op |-> "value",
                  ret |-> RecordCodeParse(RecordCodeFrom(NatWord(recIn.types[1])), recIn.body)]
    /\ UNCHANGED <<recIn, varintIn, varintOut, given, db, log>>

\* Vec::<Value>::try_from(cell)
DecodeCell ==
    /\ ~recOut.called
    /\ recOut' = [called |-> TRUE, op |-> "cell", ret |-> TryFromCell(CellOf(recIn))]
    /\ UNCHANGED <<recIn, varintIn, varintOut, given, db, log>>

RecordNext == DecodeValue \/ DecodeCell

SpecRecord == RecordInit /\ [][RecordNext]_vars

(***************************************************************************)
(* The six-byte integer on its own: a record whose first serial type is 5  *)
(* over bodies of up to 6 + MaxTail bytes whose first six bytes run over   *)
(* the edges of the sign and of every byte.                                *)
(***************************************************************************)
MaxTail == 1

EdgeBytes == {0, 255}
SixBytes ==
    {<<a, b, c, d, e, f>> : a \in {0, 1, 127, 128, 255}, b \in EdgeBytes, c \in EdgeBytes,
                            d \in EdgeBytes, e \in EdgeBytes, f \in {0, 1, 128, 255}}

SixByteBodies ==
    {s \o [i \in 1..n |-> 170] : s \in SixBytes, n \in 0..MaxTail}
        \cup {[i \in 1..n |-> 255] : n \in 0..5}

SixByteInit ==
    /\ recIn \in {[called |-> TRUE, kind |-> "TableLeaf", row_id |-> WordOf(1, "top"),
                   types |-> <<5>>, body |-> b] : b \in SixByteBodies}
    /\ recOut = NoCall
    /\ varintIn = NoCall
    /\ varintOut = NoCall
    /\ given = NoCall
    /\ db = NoCall
    /\ log = <<>>

SpecSixByte == SixByteInit /\ [][RecordNext]_vars

(***************************************************************************)
(* sqlite/pages.rs and parsers/cells.rs on the bytes of a page: the        *)
(* pointer array and the cells it leads to.  A Page is its page_id, its    *)
(* bytes (data[1] is byte 0) and the kind and cell_count of its header.    *)
(***************************************************************************)
\* PageKind::is_interior
is_interior(kind) == kind \in {"IndexInterior", "TableInterior"}

\* be_u16 and be_u32 on the first bytes of the input
be_u16(input) ==
    IF Len(input) < 2 THEN [ok |-> FALSE]
    ELSE [ok |-> TRUE, val |-> 256 * input[1] + input[2], rest |-> SubSeq(input, 3, Len(input))]

be_u32(input) ==
    IF Len(input) < 4 THEN [ok |-> FALSE]
    ELSE [ok |-> TRUE,
          val |-> ((256 * input[1] + input[2]) * 256 + input[3]) * 256 + input[4],
          rest |-> SubSeq(input, 5, Len(input))]

\* A u64 as a length: a length of more than 30 bits is longer than any
\* input of the model.
LenOf(w) == IF SigBits(w) <= 30 THEN NumOf(Slice(w, W64 - 29, W64)) ELSE Pow2(30)

\* take(size) of a cell's payload, after the fields before it were read
PayloadOf(size) ==
    LET t == Take(LenOf(size.val), size.rest)
    IN  IF t.ok
        THEN [ok |-> TRUE, payload |-> [size |-> size.val, payload |-> t.got, overflow |-> None]]
        ELSE [ok |-> FALSE]

\* The arms of parse_cell, the fields before the payload read.
TableLeafCellOf(size, row_id) ==
    IF ~size.ok \/ ~row_id.ok THEN [ok |-> FALSE]
    ELSE LET t == Take(LenOf(size.val), row_id.rest)
         IN  IF t.ok
             THEN [ok |-> TRUE,
                   cell |-> [kind |-> "TableLeaf", row_id |-> row_id.val,
                             payload |-> [size |-> size.val, payload |-> t.got,
                                          overflow |-> None]]]
             ELSE [ok |-> FALSE]

TableInteriorCellOf(left_child_page, row_id) ==
    IF ~left_child_page.ok \/ ~row_id.ok THEN [ok |-> FALSE]
    ELSE [ok |-> TRUE,
          cell |-> [kind |-> "TableInterior", left_child_page |-> left_child_page.val,
                    row_id |-> row_id.val]]

IndexLeafCellOf(size) ==
    IF ~size.ok \/ ~PayloadOf(size).ok THEN [ok |-> FALSE]
    ELSE [ok |-> TRUE,
          cell |-> [kind |-> "IndexLeaf", payload |-> PayloadOf(size).payload]]

IndexInteriorCellOf(left_child_page, size) ==
    IF ~left_child_page.ok \/ ~size.ok \/ ~PayloadOf(size).ok THEN [ok |-> FALSE]
    ELSE [ok |-> TRUE,
          cell |-> [kind |-> "IndexInterior", left_child_page |-> left_child_page.val,
                    payload |-> PayloadOf(size).payload]]

\* The varint of a cell's second field, read after the first field.
VarintAfter(first) == IF ~first.ok THEN [ok |-> FALSE] ELSE varint(first.rest)

\* BtreeHeader::parse_cell
parse_cell(kind, input) ==
    CASE kind = "TableLeaf" -> TableLeafCellOf(varint(input), VarintAfter(varint(input)))
      [] kind = "TableInterior" -> TableInteriorCellOf(be_u32(input), VarintAfter(be_u32(input)))
      [] kind = "IndexLeaf" -> IndexLeafCellOf(varint(input))
      [] OTHER -> IndexInteriorCellOf(be_u32(input), VarintAfter(be_u32(input)))

\* CellIter::next and the collection of the iterator: the cells of the
\* pointers in order up to the first that does not parse; slicing the page
\* at a pointer past its end panics.
RECURSIVE CellIterFrom(_, _, _)
CellIterNext(page, ptr_array, acc, ptr) ==
    IF ~ptr.ok THEN [st |-> "ok", cells |-> acc]
    ELSE IF ptr.val > Len(page.data) THEN Panic
    ELSE LET c == parse_cell(page.header.kind,
                             SubSeq(page.data, ptr.val + 1, Len(page.data)))
         IN  IF c.ok THEN CellIterFrom(page, ptr.rest, Append(acc, c.cell))
             ELSE [st |-> "ok", cells |-> acc]

CellIterFrom(page, ptr_array, acc) == CellIterNext(page, ptr_array, acc, be_u16(ptr_array))

\* Page::cells with the pointer array taken at the header's end on every
\* page, the first included.
PageCellsAfterHeader(page) ==
    LET start == IF is_interior(page.header.kind) THEN 12 ELSE 8
        count == page.header.cell_count
    IN  IF count * 2 + start > Len(page.data) THEN Panic
        ELSE CellIterFrom(page, SubSeq(page.data, start + 1, count * 2 + start), <<>>)

\* Page::cells, collected; the slice of the pointer array panics when it
\* passes the end of the page.
PageCells(page) ==
    LET start == IF page.page_id = 1 THEN 108
                 ELSE IF is_interior(page.header.kind) THEN 12 ELSE 8
        count == page.header.cell_count
    IN  IF count * 2 + start > Len(page.data) THEN Panic
        ELSE CellIterFrom(page, SubSeq(page.data, start + 1, count * 2 + start), <<>>)

(***************************************************************************)
(* The page specification: a page of up to MaxCells cells is written as    *)
(* the file format lays it out (the header at byte 0, or at byte 100 on    *)
(* page 1, the pointer array after the header, the cells at the end of the *)
(* page in the order of the array or against it) and its cells are read.   *)
(***************************************************************************)
MaxCells == 2

\* The cells written: a row id of one or of two varint bytes, a payload of
\* no or of two bytes.
WrittenCells ==
    {[row_id |-> r, left_child_page |-> 3, payload |-> p] :
        r \in {NatWord(1), NatWord(200)}, p \in {<<>>, <<7, 9>>}}

RECURSIVE WrittenCellSeqs(_)
WrittenCellSeqs(n) ==
    IF n = 0 THEN {<<>>}
    ELSE WrittenCellSeqs(n - 1)
            \cup {Append(s, c) : s \in {s \in WrittenCellSeqs(n - 1) : Len(s) = n - 1},
                                 c \in WrittenCells}

\* The bytes of a cell of the kind.
CellBytes(kind, c) ==
    CASE kind = "TableLeaf" ->
            EncodeVarint(NatWord(Len(c.payload))) \o EncodeVarint(c.row_id) \o c.payload
      [] kind = "TableInterior" -> <<0, 0, 0, c.left_child_page>> \o EncodeVarint(c.row_id)
      [] kind = "IndexLeaf" -> EncodeVarint(NatWord(Len(c.payload))) \o c.payload
      [] OTHER -> <<0, 0, 0, c.left_child_page>> \o EncodeVarint(NatWord(Len(c.payload)))
                    \o c.payload

KindByte(kind) ==
    CASE kind = "IndexInterior" -> 2
      [] kind = "TableInterior" -> 5
      [] kind = "IndexLeaf" -> 10
      [] OTHER -> 13

\* The page written: w.cells in the order of the pointer array; the cells
\* lie at the end of the page, in that order or (w.reversed) against it;
\* w.cut leaves the last byte of the page out.
HeaderAt(w) == IF w.page_id = 1 THEN 100 ELSE 0
ArrayAt(w) == HeaderAt(w) + (IF is_interior(w.kind) THEN 12 ELSE 8)
ContentAt(w) == ArrayAt(w) + 2 * Len(w.cells) + 3

\* The place of cell i among the cells at the end of the page.
PlaceOf(w, i) == IF w.reversed THEN Len(w.cells) + 1 - i ELSE i

\* The cell at place k.
CellPlaced(w, k) == w.cells[IF w.reversed THEN Len(w.cells) + 1 - k ELSE k]

\* The offset of the cell at place k.
RECURSIVE OffsetOfPlace(_, _)
OffsetOfPlace(w, k) ==
    IF k = 1 THEN ContentAt(w)
    ELSE OffsetOfPlace(w, k - 1) + Len(CellBytes(w.kind, CellPlaced(w, k - 1)))

RECURSIVE PlacedBytes(_, _)
PlacedBytes(w, k) ==
    IF k > Len(w.cells) THEN <<>>
    ELSE CellBytes(w.kind, CellPlaced(w, k)) \o PlacedBytes(w, k + 1)

RECURSIVE PointerBytes(_, _)
PointerBytes(w, i) ==
    IF i > Len(w.cells) THEN <<>>
    ELSE <<OffsetOfPlace(w, PlaceOf(w, i)) \div 256, OffsetOfPlace(w, PlaceOf(w, i)) % 256>>
            \o PointerBytes(w, i + 1)

PageBytes(w) ==
    LET all == [i \in 1..HeaderAt(w) |-> 0]
                \o <<KindByte(w.kind), 0, 0, 0, Len(w.cells), 0, ContentAt(w), 0>>
                \o (IF is_interior(w.kind) THEN <<0, 0, 0, 9>> ELSE <<>>)
                \o PointerBytes(w, 1) \o <<0, 0, 0>> \o PlacedBytes(w, 1)
    IN  IF w.cut THEN SubSeq(all, 1, Len(all) - 1) ELSE all

PageOf(w) ==
    [page_id |-> w.page_id, data |-> PageBytes(w),
     header |-> [kind |-> w.kind, cell_count |-> Len(w.cells)]]

\* The pages: page 1 is a table leaf, page 2 is of any kind.
WrittenPages ==
    {[page_id |-> id, kind |-> k, cells |-> cs, reversed |-> rv, cut |-> cut] :
        id \in 1..2, k \in {"TableLeaf", "TableInterior", "IndexLeaf", "IndexInterior"},
        cs \in WrittenCellSeqs(MaxCells), rv \in BOOLEAN, cut \in BOOLEAN}

PageInit ==
    /\ given \in {[called |-> TRUE, written |-> w] :
                    w \in {w \in WrittenPages : w.page_id = 1 => w.kind = "TableLeaf"}}
    /\ log = <<>>
    /\ db = NoCall
    /\ varintIn = NoCall
    /\ varintOut = NoCall
    /\ recIn = NoCall
    /\ recOut = NoCall

\* page.cells().collect()
CollectCells ==
    /\ log = <<>>
    /\ log' = <<PageCells(PageOf(given.written))>>
    /\ UNCHANGED <<given, db, varintIn, varintOut, recIn, recOut>>

PageNext == CollectCells

SpecPage == PageInit /\ [][PageNext]_vars

(***************************************************************************)
(* Condition::eval on its own: one condition of the WHERE grammar applied  *)
(* to one decoded row of table t(id, c, d).                                *)
(***************************************************************************)
\* 1.0 as an f64
FloatOne == Float([i \in 1..W64 |-> IF i \in 3..12 THEN 1 ELSE 0])

\* The values column c holds in the rows eval is applied to.
EvalValues == {Null, Integer(IntWord(1)), Integer(IntWord(-1)), Text(<<97>>),
               Text(NullWord), FloatOne, Blob(<<0>>)}

\* Rows of table t; the short row is a record that ends before column c.
EvalRows == {<<Integer(IntWord(7)), v, Integer(IntWord(0))>> : v \in EvalValues}
                \cup {<<Integer(IntWord(7))>>}

\* The literals of the conditions: NULL, null, 1, 2, a, and the empty word.
EvalLiterals == {NullWord, <<110, 117, 108, 108>>, <<49>>, <<50>>, <<97>>}

EvalConds ==
    {Cond(op, col, val) : op \in Ops, col \in {"c", "x"}, val \in EvalLiterals}
        \cup {[op |-> "Between", col |-> "c", val |-> from, to |-> to] :
                from \in EvalLiterals, to \in EvalLiterals}

EvalColumns == create_sql(TableSql).table.columns

EvalInit ==
    /\ given \in {[called |-> TRUE, cond |-> c, row |-> r] : c \in EvalConds, r \in EvalRows}
    /\ log = <<>>
    /\ db = NoCall
    /\ varintIn = NoCall
    /\ varintOut = NoCall
    /\ recIn = NoCall
    /\ recOut = NoCall

\* The outcome of cond.eval(row, columns).
EvalOutcome(cond, row, columns) ==
    IF EvalPanics(cond, row, columns) THEN [st |-> "panic"]
    ELSE [st |-> "ok", ret |-> eval(cond, row, columns)]

\* cond.eval(&row, &table.columns)
EvalCondition ==
    /\ log = <<>>
    /\ log' = <<EvalOutcome(given.cond, given.row, EvalColumns)>>
    /\ UNCHANGED <<given, db, varintIn, varintOut, recIn, recOut>>

EvalNext == EvalCondition

SpecEval == EvalInit /\ [][EvalNext]_vars

(***************************************************************************)
(* create_sql on its own: the statement is written from a list of column   *)
(* declarations and parsed back.                                           *)
(***************************************************************************)
MaxDecls == 3

\* One column declaration: name, type, PRIMARY KEY, NOT NULL.
Decls ==
    {[name |-> n, type |-> t, pk |-> pk, notnull |-> nn] :
        n \in {"a", "b"}, t \in {"integer", "text"}, pk \in BOOLEAN, nn \in BOOLEAN}

RECURSIVE DeclSeqs(_)
DeclSeqs(n) ==
    IF n = 0 THEN {<<>>}
    ELSE DeclSeqs(n - 1) \cup {Append(s, d) : s \in {s \in DeclSeqs(n - 1) : Len(s) = n - 1},
                                              d \in Decls}

\* The tokens of one declaration.
DeclTokens(d) ==
    <<d.name, d.type>> \o (IF d.pk THEN <<"primary key">> ELSE <<>>)
        \o (IF d.notnull THEN <<"not null">> ELSE <<>>)

\* The tokens of CREATE TABLE t (decls).
RECURSIVE DeclListTokens(_)
DeclListTokens(decls) ==
    IF decls = <<>> THEN <<>>
    ELSE IF Len(decls) = 1 THEN DeclTokens(decls[1])
    ELSE DeclTokens(decls[1]) \o <<",">> \o DeclListTokens(Tail(decls))

CreateTokens(decls) == <<"CREATE TABLE", "t", "(">> \o DeclListTokens(decls) \o <<")">>

CreateInit ==
    /\ given \in {[called |-> TRUE, decls |-> ds] : ds \in DeclSeqs(MaxDecls)}
    /\ log = <<>>
    /\ db = NoCall
    /\ varintIn = NoCall
    /\ varintOut = NoCall
    /\ recIn = NoCall
    /\ recOut = NoCall

\* create_sql(sql)
ParseCreate ==
    /\ log = <<>>
    /\ log' = <<create_sql(CreateTokens(given.decls))>>
    /\ UNCHANGED <<given, db, varintIn, varintOut, recIn, recOut>>

CreateNext == ParseCreate

SpecCreate == CreateInit /\ [][CreateNext]_vars

(***************************************************************************)
(* sqlite/tables.rs: a Table on its own.  A CREATE TABLE statement is      *)
(* written from typed column declarations and parsed, and the columns of a *)
(* SELECT are resolved against the Table.                                  *)
(***************************************************************************)
MaxColumns == 3

\* impl FromStr for CellType
CellTypeFromStr(s) ==
    CASE s = "integer" -> "Integer"
      [] s = "float" -> "Float"
      [] s = "text" -> "Text"
      [] s = "blob" -> "Blob"
      [] OTHER -> "Null"

\* The type tokens of the declarations: the four of rule cell_type() and
\* two others.
TypeTokens == {"integer", "float", "text", "blob", "varchar", "INTEGER"}

TypedDecls ==
    {[name |-> n, type |-> t, pk |-> FALSE, notnull |-> FALSE] :
        n \in {"a", "b", "c"}, t \in TypeTokens}

RECURSIVE TypedDeclSeqs(_)
TypedDeclSeqs(n) ==
    IF n = 0 THEN {<<>>}
    ELSE TypedDeclSeqs(n - 1)
            \cup {Append(s, d) : s \in {s \in TypedDeclSeqs(n - 1) : Len(s) = n - 1},
                                 d \in TypedDecls}

\* The column lists of the SELECT statements; the table has no column z.
Selections ==
    {All, Count, Columns(<<"b", "a">>), Columns(<<"a", "z", "c">>), Columns(<<"z">>),
     Columns(<<"c", "c">>)}

TableInit ==
    /\ given \in {[called |-> TRUE, typed |-> ds] : ds \in TypedDeclSeqs(MaxColumns)}
    /\ log = <<>>
    /\ db = NoCall
    /\ varintIn = NoCall
    /\ varintOut = NoCall
    /\ recIn = NoCall
    /\ recOut = NoCall

\* schema.try_into(): the Table of the statement
ParseTable ==
    /\ log = <<>>
    /\ log' = <<create_sql(CreateTokens(given.typed))>>
    /\ UNCHANGED <<given, db, varintIn, varintOut, recIn, recOut>>

\* table.select(&stmt)
SelectFrom ==
    /\ Len(log) = 1 /\ log[1].ok
    /\ \E cols \in Selections :
          LET stmt == [name |-> "t", columns |-> cols, conds |-> <<>>]
          IN  log' = Append(log, [sel |-> stmt, columns |-> select(log[1].table, stmt)])
    /\ UNCHANGED <<given, db, varintIn, varintOut, recIn, recOut>>

TableNext == ParseTable \/ SelectFrom

SpecTable == TableInit /\ [][TableNext]_vars

(***************************************************************************)
(* parsers/sql.rs: the SELECT grammar.  A statement is the sequence of its *)
(* tokens.  A token is its text: s as the grammar reads it where it looks  *)
(* for a keyword, a symbol or a name, v its characters where it is read as *)
(* a value, and q the quote it is written in ("" for none).                *)
(***************************************************************************)
Tok(s, v, q) == [s |-> s, v |-> v, q |-> q]
Bare(s) == Tok(s, <<>>, "")
EofTok == Tok("<eof>", <<>>, "<eof>")

TokAt(toks, p) == IF p <= Len(toks) THEN toks[p] ELSE EofTok

Comparisons == {"=", ">=", ">", "<=", "<", "!="}

\* rule word(), as a token
IsWordTok(t) == t.q = "" /\ t.s \notin Comparisons \cup {"*", "count(*)", ",", "(", ")"}

\* rule name(): a word, or words in double quotes
IsNameTok(t) == IsWordTok(t) \/ t.q = "\""

\* rule value(): a word, or words in quotes of either kind
IsValueTok(t) == IsWordTok(t) \/ t.q \in {"'", "\""}

\* rule conditionals()
Conditionals == {"AND", "and", "OR", "or"}

\* The Condition variant of a comparison symbol.
VariantOf(sym) ==
    CASE sym = "=" -> "Eq"
      [] sym = ">=" -> "GreaterEq"
      [] sym = ">" -> "Greater"
      [] sym = "<=" -> "LessEq"
      [] sym = "<" -> "Less"
      [] OTHER -> "Ne"

\* rule condition() at token p: the Condition and the position after it.
ConditionRule(toks, p) ==
    IF /\ IsNameTok(TokAt(toks, p)) /\ TokAt(toks, p + 1).q = ""
       /\ TokAt(toks, p + 1).s \in Comparisons /\ IsValueTok(TokAt(toks, p + 2))
    THEN [ok |-> TRUE,
          cond |-> [op |-> VariantOf(toks[p + 1].s), col |-> toks[p].s,
                    val |-> toks[p + 2].v, to |-> <<>>],
          next |-> p + 3]
    ELSE IF /\ IsNameTok(TokAt(toks, p)) /\ TokAt(toks, p + 1).q = ""
            /\ TokAt(toks, p + 1).s \in {"BETWEEN", "between"}
            /\ IsValueTok(TokAt(toks, p + 2))
            /\ TokAt(toks, p + 3).q = "" /\ TokAt(toks, p + 3).s \in {"AND", "and"}
            /\ IsValueTok(TokAt(toks, p + 4))
         THEN [ok |-> TRUE,
               cond |-> [op |-> "Between", col |-> toks[p].s,
                         val |-> toks[p + 2].v, to |-> toks[p + 4].v],
               next |-> p + 5]
    ELSE [ok |-> FALSE]

\* condition() ** conditionals() reading AND alone as a separator.
RECURSIVE ConditionList(_, _, _)
ConditionsFromAnd(toks, p, conds, cond) ==
    IF ~cond.ok THEN [conds |-> conds, next |-> p]
    ELSE IF /\ TokAt(toks, cond.next).q = "" /\ TokAt(toks, cond.next).s \in {"AND", "and"}
            /\ ConditionRule(toks, cond.next + 1).ok
         THEN ConditionList(toks, cond.next + 1, Append(conds, cond.cond))
         ELSE [conds |-> Append(conds, cond.cond), next |-> cond.next]

\* condition() ** conditionals(): the conditions from token p on, the
\* separators dropped, and the position after the last condition.
ConditionsFrom(toks, p, conds, cond) ==
    IF ~cond.ok THEN [conds |-> conds, next |-> p]
    ELSE IF /\ TokAt(toks, cond.next).q = "" /\ TokAt(toks, cond.next).s \in Conditionals
            /\ ConditionRule(toks, cond.next + 1).ok
         THEN ConditionList(toks, cond.next + 1, Append(conds, cond.cond))
         ELSE [conds |-> Append(conds, cond.cond), next |-> cond.next]

ConditionList(toks, p, conds) == ConditionsFrom(toks, p, conds, ConditionRule(toks, p))

\* rule search() at token p
SearchRule(toks, p) ==
    IF TokAt(toks, p).q = "" /\ TokAt(toks, p).s \in {"WHERE", "where"}
    THEN [ok |-> TRUE] @@ ConditionList(toks, p + 1, <<>>)
    ELSE [ok |-> FALSE]

\* name() ** ",": the names from token p on and the position after them.
RECURSIVE NameList(_, _, _)
NameList(toks, p, names) ==
    IF ~IsNameTok(TokAt(toks, p)) THEN [names |-> names, next |-> p]
    ELSE IF TokAt(toks, p + 1) = Bare(",") /\ IsNameTok(TokAt(toks, p + 2))
         THEN NameList(toks, p + 2, Append(names, toks[p].s))
         ELSE [names |-> Append(names, toks[p].s), next |-> p + 1]

\* rule columns() at token 2, as rule select() reads its result
ColumnsRule(toks) ==
    IF TokAt(toks, 2) = Bare("*") THEN [columns |-> All, next |-> 3]
    ELSE IF TokAt(toks, 2) = Bare("count(*)") THEN [columns |-> Count, next |-> 3]
    ELSE LET l == NameList(toks, 2, <<>>)
         IN  [columns |-> Columns(l.names), next |-> l.next]

\* rule select() once its columns and its search are read
SelectOf(toks, cl, s) ==
    IF (IF s.ok THEN s.next ELSE cl.next + 2) = Len(toks) + 1
    THEN [ok |-> TRUE,
          select |-> [name |-> toks[cl.next + 1].s, columns |-> cl.columns,
                      conds |-> IF s.ok THEN s.conds ELSE <<>>]]
    ELSE [ok |-> FALSE]

SelectFromTable(toks, cl) ==
    IF /\ TokAt(toks, cl.next).q = "" /\ TokAt(toks, cl.next).s \in {"from", "FROM"}
       /\ IsNameTok(TokAt(toks, cl.next + 1))
    THEN SelectOf(toks, cl, SearchRule(toks, cl.next + 2))
    ELSE [ok |-> FALSE]

\* impl FromStr for Select: rule select() on the whole statement
SelectFromStr(toks) ==
    IF TokAt(toks, 1).q = "" /\ TokAt(toks, 1).s \in Operations
    THEN SelectFromTable(toks, ColumnsRule(toks))
    ELSE [ok |-> FALSE]

(***************************************************************************)
(* The WHERE specification: SELECT * FROM t WHERE ... is written with up   *)
(* to MaxConds conditions joined by AND, and, OR and or, parsed, written   *)
(* again with AND for every separator and parsed, and both statements are  *)
(* run on a file of table t(id, c, d).                                     *)
(***************************************************************************)
MaxConds == 2

\* The conditions a statement is written from, with their tokens.
WrittenCond(cond, toks) == [cond |-> cond, toks |-> toks]
WrittenConds ==
    {WrittenCond(Cond("Eq", "c", KeyA), <<Bare("c"), Bare("="), Tok("", KeyA, "'")>>),
     WrittenCond(Cond("Eq", "d", <<49>>), <<Bare("d"), Bare("="), Tok("1", <<49>>, "")>>),
     WrittenCond(Cond("Ne", "d", <<49>>), <<Bare("d"), Bare("!="), Tok("1", <<49>>, "")>>),
     WrittenCond([op |-> "Between", col |-> "id", val |-> <<49>>, to |-> <<51>>],
             <<Bare("id"), Bare("BETWEEN"), Tok("1", <<49>>, ""), Bare("AND"),
               Tok("3", <<51>>, "")>>)}

\* The WHERE clauses: conditions, each but the first with the separator
\* before it.
RECURSIVE Wheres(_)
Wheres(n) ==
    IF n = 0 THEN {<<>>}
    ELSE Wheres(n - 1)
            \cup {Append(w, [join |-> j, written |-> c]) :
                    w \in {w \in Wheres(n - 1) : Len(w) = n - 1},
                    j \in (IF n = 1 THEN {"WHERE"} ELSE Conditionals), c \in WrittenConds}

RECURSIVE WhereTokens(_)
WhereTokens(w) ==
    IF w = <<>> THEN <<>>
    ELSE <<Bare(w[1].join)>> \o w[1].written.toks \o WhereTokens(Tail(w))

SelectTokens(w) == <<Bare("SELECT"), Bare("*"), Bare("FROM"), Bare("t")>> \o WhereTokens(w)

\* The clause with AND for every separator.
Conjunction(w) ==
    [i \in 1..Len(w) |-> IF i = 1 THEN w[i] ELSE [w[i] EXCEPT !.join = "AND"]]

\* The tables the statements are run on: three rows, one row on a leaf,
\* with and without the index on c.
SelectContents ==
    {[keys |-> <<KeyA, KeyA, KeyB>>, cap |-> 1, indexed |-> ix] : ix \in BOOLEAN}

SelectInit ==
    /\ given \in {[called |-> TRUE, where |-> w, content |-> c] :
                    w \in Wheres(MaxConds), c \in SelectContents}
    /\ db = FileOf(given.content)
    /\ log = <<>>
    /\ varintIn = NoCall
    /\ varintOut = NoCall
    /\ recIn = NoCall
    /\ recOut = NoCall

\* Command::from: stmt.parse() on the statement as written
ParseSelect ==
    /\ log = <<>>
    /\ log' = <<[parsed |-> SelectFromStr(SelectTokens(given.where))]>>
    /\ UNCHANGED <<given, db, varintIn, varintOut, recIn, recOut>>

\* Command::from: stmt.parse() on the statement with AND for every separator
ParseConjunction ==
    /\ Len(log) = 1
    /\ log' = Append(log, [parsed |-> SelectFromStr(SelectTokens(Conjunction(given.where)))])
    /\ UNCHANGED <<given, db, varintIn, varintOut, recIn, recOut>>

\* repl::run on the parsed statements, the first and then the second
RunParsed ==
    /\ Len(log) \in 2..3
    /\ log[1].parsed.ok /\ log[2].parsed.ok
    /\ LET stmt == log[Len(log) - 1].parsed.select
       IN  \E found \in Found(stmt, db) :
              log' = Append(log, [found |-> found, out |-> run(stmt, db, found)])
    /\ UNCHANGED <<given, db, varintIn, varintOut, recIn, recOut>>

SelectNext == ParseSelect \/ ParseConjunction \/ RunParsed

SpecSelect == SelectInit /\ [][SelectNext]_vars

(***************************************************************************)
(* app.rs: the router of the REPL.  The App is its fields db, is_running   *)
(* and history.  A file of the file system is what File::open and          *)
(* Database::new read of it: whether it exists, its length, whether its    *)
(* first 15 bytes are UTF-8, the page size of its header, the kind byte of *)
(* its first page, and the B-tree file it holds.                           *)
(***************************************************************************)
Image(size, header_utf8, page_size, first_kind, file) ==
    [exists |-> TRUE, size |-> size, header_utf8 |-> header_utf8, page_size |-> page_size,
     first_kind |-> first_kind, file |-> file]

\* Database::new: Err on a file shorter than its header or its first page,
\* on a header string that is not UTF-8 and on a first page whose B-tree
\* header does not parse; data[100..] panics on a page size below 100.
DatabaseNew(image) ==
    IF image.size < 100 THEN RunErr("failed to fill whole buffer")
    ELSE IF ~image.header_utf8 THEN RunErr("parsing db header at Database::new")
    ELSE IF image.size < image.page_size THEN RunErr("failed to fill whole buffer")
    ELSE IF image.page_size < 100 THEN Panic
    ELSE IF image.page_size < 112 \/ ~PageKind(image.first_kind).some
         THEN RunErr("parsing btree header at Database::new")
    ELSE [st |-> "ok", db |-> image.file]

\* What one call of router leaves: the App, what was written to the
\* terminal, the outcome of the query run (if one was), whether the
\* catalogue was read, whether the call panicked, and Ok or Err returned.
Routed(app, out, query, catalogue) ==
    [app |-> app, out |-> out, query |-> query, catalogue |-> catalogue,
     panicked |-> FALSE, ret |-> "ok"]
RouterPanicked(app, query) ==
    [app |-> app, out |-> <<>>, query |-> query, catalogue |-> FALSE,
     panicked |-> TRUE, ret |-> "panic"]

\* utils::elog, utils::log, utils::wlog
elog(msg) == <<[level |-> "error", msg |-> msg]>>
ilog(msg) == <<[level |-> "info", msg |-> msg]>>
wlog(msg) == <<[level |-> "warning", msg |-> msg]>>

\* dot_commands::handle_dot_commands
handle_dot_commands(app, cmd) ==
    CASE cmd = ".dbinfo" -> Routed(app, <<[level |-> "print", msg |-> "dbinfo"]>>, None, FALSE)
      [] cmd = ".tables" -> Routed(app, <<[level |-> "print", msg |-> "tables"]>>, None, TRUE)
      [] cmd = ".schemas" -> Routed(app, <<[level |-> "print", msg |-> "schemas"]>>, None, TRUE)
      [] OTHER -> Routed(app, <<[level |-> "print", msg |-> "unknown command"]>>, None, FALSE)

\* The Dot arm of router
router_Dot(app, cmd) ==
    IF app.db.some THEN handle_dot_commands(app, cmd)
    ELSE Routed(app, elog("Please, load a database first"), None, FALSE)

\* The Load arm of router, on the file the path names
router_Load(app, image, loaded) ==
    IF ~image.exists THEN Routed(app, elog("! No such file or directory"), None, FALSE)
    ELSE IF loaded.st = "ok"
         THEN Routed([app EXCEPT !.db = Some(loaded.db)], ilog("Sucessfully loaded"), None, FALSE)
    ELSE IF loaded.st = "panic" THEN RouterPanicked(app, None)
    ELSE Routed(app, elog(loaded.msg), None, FALSE)

\* The Sql arm of router with the statement run on an unloaded App as a
\* command that is not known and ends the session.
router_SqlUnloadedQuits(app, stmt, ran) ==
    IF app.db.some
    THEN IF ran.st = "panic" THEN RouterPanicked(app, Some(ran))
         ELSE IF ran.st = "err" THEN Routed(app, elog(ran.msg), Some(ran), TRUE)
         ELSE Routed(app, <<[level |-> "print", msg |-> "rows"]>>, Some(ran), TRUE)
    ELSE Routed([app EXCEPT !.is_running = FALSE], elog("Unknown command"), None, FALSE)

\* The Sql arm of router, ran being the outcome of repl::run on the loaded
\* database; an Err is routed as Command::Error.
router_Sql(app, stmt, ran) ==
    IF app.db.some
    THEN IF ran.st = "panic" THEN RouterPanicked(app, Some(ran))
         ELSE IF ran.st = "err" THEN Routed(app, elog(ran.msg), Some(ran), TRUE)
         ELSE Routed(app, <<[level |-> "print", msg |-> "rows"]>>, Some(ran), TRUE)
    ELSE Routed(app, elog("Please, load a database first"), None, FALSE)

\* The History arm of router: previous_command pops the history.
router_History(app) ==
    IF app.history # <<>>
    THEN Routed([app EXCEPT !.history = SubSeq(@, 1, Len(@) - 1)],
                <<[level |-> "debug", msg |-> "cmd"]>>, None, FALSE)
    ELSE Routed(app, wlog("No previous commands"), None, FALSE)

\* The Utility arm of router: the status of the process, an Err returned
\* when it cannot be started.
router_Utility(app, started) ==
    IF started THEN Routed(app, <<[level |-> "shell", msg |-> "status"]>>, None, FALSE)
    ELSE [Routed(app, <<>>, None, FALSE) EXCEPT !.ret = "err"]

(***************************************************************************)
(* The App specification: up to MaxCommands commands are routed, over a    *)
(* file system of databases that load and of files that do not.            *)
(***************************************************************************)
MaxCommands == 3

ContentT == [keys |-> <<KeyA, KeyB>>, cap |-> 1, indexed |-> TRUE]
ContentU == [keys |-> <<KeyB>>, cap |-> MaxRows, indexed |-> FALSE]

\* The file system: two databases of 4096-byte pages; no file; a file shorter than the
\* header; a header that is not UTF-8; a file shorter than its first page;
\* a first page that is no B-tree page; a page size too small for a B-tree
\* header; and a header of page size 1, as databases of 65536-byte pages
\* have it.
Files ==
    [path \in {"t.db", "u.db", "absent.db", "short.db", "binary.db", "cut.db", "nobtree.db",
               "small.db", "large.db"} |->
        CASE path = "t.db" -> Image(12288, TRUE, 4096, 13, FileOf(ContentT))
          [] path = "u.db" -> Image(8192, TRUE, 4096, 13, FileOf(ContentU))
          [] path = "absent.db" -> [exists |-> FALSE]
          [] path = "short.db" -> Image(50, TRUE, 4096, 13, FileOf(ContentU))
          [] path = "binary.db" -> Image(8192, FALSE, 4096, 13, FileOf(ContentU))
          [] path = "cut.db" -> Image(4095, TRUE, 4096, 13, FileOf(ContentU))
          [] path = "nobtree.db" -> Image(8192, TRUE, 4096, 0, FileOf(ContentU))
          [] path = "small.db" -> Image(8192, TRUE, 104, 13, FileOf(ContentU))
          [] OTHER -> Image(2 * 65536, TRUE, 1, 13, FileOf(ContentU))]

\* The statements of the session.
AppStatements ==
    {[name |-> "t", columns |-> All, conds |-> <<>>],
     [name |-> "t", columns |-> Columns(<<"id">>), conds |-> <<Cond("Eq", "c", KeyA)>>],
     [name |-> "v", columns |-> All, conds |-> <<>>]}

DotCommands == {".dbinfo", ".tables", ".schemas", ".help"}

\* App::new
AppInit ==
    /\ db = None
    /\ given = [called |-> TRUE, is_running |-> TRUE, history |-> <<>>]
    /\ log = <<>>
    /\ varintIn = NoCall
    /\ varintOut = NoCall
    /\ recIn = NoCall
    /\ recOut = NoCall

\* The process has not panicked.
AppAlive == \A k \in 1..Len(log) : ~log[k].panicked

\* The App as router finds it.
TheApp == [db |-> db, is_running |-> given.is_running, history |-> given.history]

\* One call of router: the App it leaves and what it did.
Route(command, r) ==
    /\ Len(log) < MaxCommands /\ AppAlive
    /\ db' = r.app.db
    /\ given' = [given EXCEPT !.is_running = r.app.is_running, !.history = r.app.history]
    /\ log' = Append(log, [command |-> command, out |-> r.out, query |-> r.query,
                           catalogue |-> r.catalogue, panicked |-> r.panicked,
                           ret |-> r.ret])
    /\ UNCHANGED <<varintIn, varintOut, recIn, recOut>>

RouteDot == \E cmd \in DotCommands : Route([k |-> "Dot", cmd |-> cmd], router_Dot(TheApp, cmd))

RouteLoad ==
    \E path \in DOMAIN Files :
        Route([k |-> "Load", path |-> path],
              router_Load(TheApp, Files[path],
                          IF Files[path].exists THEN DatabaseNew(Files[path]) ELSE None))

RouteSql ==
    \E stmt \in AppStatements :
        IF db.some
        THEN \E found \in Found(stmt, db.v) :
                Route([k |-> "Sql", stmt |-> stmt], router_Sql(TheApp, stmt, run(stmt, db.v, found)))
        ELSE Route([k |-> "Sql", stmt |-> stmt], router_Sql(TheApp, stmt, None))

RouteError ==
    Route([k |-> "Error", msg |-> "message"], Routed(TheApp, elog("message"), None, FALSE))

RouteQuit ==
    Route([k |-> "Quit"], Routed([TheApp EXCEPT !.is_running = FALSE], <<>>, None, FALSE))

RouteUnknown == Route([k |-> "Unknown"], Routed(TheApp, elog("Unknown command"), None, FALSE))

RouteHistory == Route([k |-> "History"], router_History(TheApp))

RouteUtility ==
    \E started \in BOOLEAN : Route([k |-> "Utility", shell |-> "ls"], router_Utility(TheApp, started))

AppNext ==
    \/ RouteDot \/ RouteLoad \/ RouteSql \/ RouteError \/ RouteQuit \/ RouteUnknown
    \/ RouteHistory \/ RouteUtility

SpecApp == AppInit /\ [][AppNext]_vars

(***************************************************************************)
(* The serial types as the file format declares them.                      *)
(***************************************************************************)
DeclaredWidth(n) ==
    CASE n \in {0, 8, 9, 10, 11} -> 0
      [] n \in 1..4 -> n
      [] n = 5 -> 6
      [] n \in {6, 7} -> 8
      [] n >= 12 /\ n % 2 = 0 -> (n - 12) \div 2
      [] OTHER -> (n - 13) \div 2

DeclaredVariant(n) ==
    CASE n = 0 -> "Null"
      [] n \in (1..6) \cup {8, 9} -> "Integer"
      [] n = 7 -> "Float"
      [] n >= 12 /\ n % 2 = 0 -> "Blob"
      [] OTHER -> "Text"

RECURSIVE DeclaredBodyLen(_)
DeclaredBodyLen(types) ==
    IF types = <<>> THEN 0 ELSE DeclaredWidth(Head(types)) + DeclaredBodyLen(Tail(types))

HasReserved(types) == \E i \in 1..Len(types) : types[i] \in {10, 11}

\* Every legal serial type decodes to the declared variant and consumes the
\* declared number of body bytes, and fails exactly on a body that is too
\* short.
SerialTypeLegalDecodes ==
    (recOut.called /\ recOut.op = "value") =>
        LET n == recIn.types[1]
            w == DeclaredWidth(n)
        IN  IF Len(recIn.body) < w THEN ~recOut.ret.ok
            ELSE /\ recOut.ret.ok
                 /\ recOut.ret.val.t = DeclaredVariant(n)
                 /\ recOut.ret.rest = SubSeq(recIn.body, w + 1, Len(recIn.body))

\* A record with a reserved serial type, or with a body that is too short,
\* is an error value returned to the caller.
MalformedRecordIsError ==
    (/\ recOut.called /\ recOut.op = "cell"
     /\ recIn.kind # "TableInterior"
     /\ HasReserved(recIn.types) \/ Len(recIn.body) < DeclaredBodyLen(recIn.types))
        => recOut.ret.st = "err"

\* C8: serial-type completeness: every legal serial type decodes to a Value
\* of the declared variant and consumes the declared number of body bytes,
\* and a record with reserved code 10 or 11, or with too short a body, fails
\* with an error value returned to the caller instead of ending the program.
SerialTypeCompleteness == SerialTypeLegalDecodes /\ MalformedRecordIsError

\* C6: row-id aliasing: a TableLeaf cell whose decoded record starts with
\* Null yields a row that starts with Integer(row_id) and is otherwise as
\* decoded; every other cell yields its record exactly as decoded.
RowIdAliasing ==
    (recOut.called /\ recOut.op = "cell" /\ recOut.ret.st = "ok") =>
        LET decoded == PayloadParse(CellOf(recIn).payload).row
            row == recOut.ret.row
        IN  IF recIn.kind = "TableLeaf" /\ decoded[1] = Null
            THEN /\ Len(row) = Len(decoded)
                 /\ row[1] = Integer(recIn.row_id)
                 /\ \A i \in 2..Len(row) : row[i] = decoded[i]
            ELSE row = decoded

\* A TableLeaf cell with a Null first value, a second value and the largest
\* row_id was converted to a row.
RowIdAliased ==
    /\ recOut.called /\ recOut.op = "cell" /\ recOut.ret.st = "ok"
    /\ recIn.kind = "TableLeaf"
    /\ recIn.types[1] = 0
    /\ Len(recOut.ret.row) = 2
    /\ recIn.row_id = WordOf(64, "ones")

\* C7: decoding the canonical encoding of n yields n and leaves exactly the
\* bytes that follow the encoding; a nine-byte encoding takes all eight bits
\* of its last byte, a shorter one the low seven bits of its terminator.
VarintRoundTrip ==
    varintOut.called =>
        /\ varintOut.ret.ok
        /\ varintOut.ret.val = varintIn.n
        /\ varintOut.ret.rest = varintIn.rest
        /\ Len(EncodeVarint(varintIn.n)) \in 1..9
        /\ LET enc == EncodeVarint(varintIn.n)
               low == NumOf(Slice(varintOut.ret.val, 57, 64))
           IN  IF Len(enc) = 9 THEN low = enc[9] ELSE low % 128 = enc[Len(enc)] % 128

\* A nine-byte encoding whose last byte has its high bit set was decoded.
VarintNineByteDecoded ==
    /\ varintOut.called
    /\ Len(EncodeVarint(varintIn.n)) = 9
    /\ EncodeVarint(varintIn.n)[9] >= 128
    /\ varintIn.rest # <<>>

(***************************************************************************)
(* What a SELECT should return, from the table the file was written from:  *)
(* the rows that satisfy every condition, in row id order.                 *)
(***************************************************************************)
Undamaged == ~given.damage.some

\* The text is a decimal integer.
IsInt(txt) ==
    /\ txt # <<>>
    /\ \A k \in 1..Len(txt) : txt[k] \in 48..57 \/ (k = 1 /\ txt[k] = 45 /\ Len(txt) > 1)

IntOf(txt) ==
    IF txt[1] = 45 THEN -DigitsValue(Tail(txt), 0) ELSE DigitsValue(txt, 0)

\* a op b, given whether a < b and whether a = b.
Holds(op, lt, eq) ==
    CASE op = "Eq" -> eq
      [] op = "Ne" -> ~eq
      [] op = "Less" -> lt
      [] op = "LessEq" -> lt \/ eq
      [] op = "Greater" -> ~lt /\ ~eq
      [] op = "GreaterEq" -> ~lt

IntSat(cond, n) ==
    IsInt(cond.val) /\ Holds(cond.op, n < IntOf(cond.val), n = IntOf(cond.val))

Sat(content, i, cond) ==
    CASE cond.col = "id" -> IntSat(cond, i)
      [] cond.col = "d" -> IntSat(cond, ColD(i))
      [] cond.col = "c" ->
            Holds(cond.op, StrLess(content.keys[i], cond.val), content.keys[i] = cond.val)
      [] OTHER -> FALSE

\* The rows from i on that satisfy conds and are not among the lost.
RECURSIVE ExpectedFrom(_, _, _, _)
ExpectedFrom(content, conds, lost, i) ==
    IF i > Len(content.keys) THEN <<>>
    ELSE IF i \notin lost /\ \A k \in 1..Len(conds) : Sat(content, i, conds[k])
         THEN <<LogicalRow(content, i)>> \o ExpectedFrom(content, conds, lost, i + 1)
    ELSE ExpectedFrom(content, conds, lost, i + 1)

Expected(content, conds) == ExpectedFrom(content, conds, {}, 1)

Range(seq) == {seq[k] : k \in 1..Len(seq)}
Occurrences(seq, x) == Cardinality({k \in 1..Len(seq) : seq[k] = x})
SameMultiset(a, b) ==
    \A x \in Range(a) \cup Range(b) : Occurrences(a, x) = Occurrences(b, x)

\* The statement selects rows (it is not a count) and run reached the walk.
Walked(e) == e.stmt.columns # Count /\ e.out.st # "err"

\* The root page of the index on c.
IndexRoot == get_schemas(db)["idx_t_c"].rootpage

\* C4: a full scan (no key, no row-id list, no conditions) of a well-formed
\* table B-tree of any height returns the row of every TableLeaf cell exactly
\* once, in tree order, which is ascending row id order.
FullScanInOrder ==
    \A k \in 1..Len(log) :
        (Undamaged /\ Walked(log[k]) /\ log[k].stmt.conds = <<>>) =>
            /\ log[k].out.st = "ok"
            /\ ~log[k].out.search.v.key.some /\ ~log[k].out.search.v.indeces.some
            /\ log[k].out.walk.rows = [i \in 1..Len(given.keys) |-> LogicalRow(given, i)]
            /\ \A i \in 1..(Len(log[k].out.walk.rows) - 1) :
                    ULess(log[k].out.walk.rows[i][1].v, log[k].out.walk.rows[i + 1][1].v)

\* A table of MaxRows rows whose B-tree has an interior page below its root
\* was scanned in full.
FullScanOfDeepTree ==
    /\ Len(log) >= 1 /\ Undamaged
    /\ log[1].stmt.columns = All /\ log[1].stmt.conds = <<>>
    /\ log[1].out.st = "ok"
    /\ Len(log[1].out.walk.rows) = MaxRows
    /\ \E p \in DOMAIN db.pages : p # 2 /\ db.pages[p].kind = 5

\* C5: for a table whose B-tree is a single TableLeaf page, the number
\* SELECT count(*) prints is the number of rows SELECT * emits.
CountEqualsRows ==
    (/\ Len(log) = 2
     /\ db.pages[2].kind = 13
     /\ log[1].stmt.columns = All /\ log[1].stmt.conds = <<>>
     /\ log[2].stmt.columns = Count) =>
        /\ log[1].out.st = "ok" /\ log[2].out.st = "ok"
        /\ log[2].out.count = Len(log[1].out.walk.rows)
        /\ log[2].out.count = log[1].out.count

\* The rows of a one-page table of MaxRows rows were selected and then
\* counted.
CountedOnePageTable ==
    /\ Len(log) = 2
    /\ db.pages[2].kind = 13
    /\ log[1].stmt.columns = All /\ log[1].stmt.conds = <<>>
    /\ log[2].stmt.columns = Count
    /\ log[2].out.st = "ok"
    /\ log[2].out.count = MaxRows

\* C1: for SELECT * FROM t WHERE c = v on a well-formed table with an index
\* on c, the walk from the index root with key v returns the same multiset
\* of rows as the walk from the table root without a key.
IndexEquivalence ==
    \A k \in 1..Len(log) :
        (/\ Undamaged /\ given.indexed /\ Walked(log[k])
         /\ log[k].stmt.columns = All
         /\ Len(log[k].stmt.conds) = 1
         /\ log[k].stmt.conds[1].op = "Eq" /\ log[k].stmt.conds[1].col = "c") =>
            /\ log[k].out.search.v.pgno = IndexRoot
            /\ log[k].out.search.v.key = Some(log[k].stmt.conds[1].val)
            /\ log[k].out.walk.st = "ok"
            /\ SameMultiset(log[k].out.walk.rows,
                            rows(db, [log[k].out.search.v EXCEPT
                                        !.pgno = 2, !.key = None]).rows)

\* C2: when the index's root is an IndexInterior page, an equality query on
\* the indexed column returns exactly the table rows whose column equals
\* the key, none missing and none extra, in ascending row id order.
IndexInteriorRootExact ==
    \A k \in 1..Len(log) :
        (/\ Undamaged /\ given.indexed /\ Walked(log[k])
         /\ db.pages[IndexRoot].kind = 2
         /\ Len(log[k].stmt.conds) = 1
         /\ log[k].stmt.conds[1].op = "Eq" /\ log[k].stmt.conds[1].col = "c") =>
            /\ log[k].out.walk.st = "ok"
            /\ log[k].out.walk.rows = Expected(given, log[k].stmt.conds)

\* The decoded rows of the table's leaves for which every condition of the
\* search evaluates true, in tree order.
RECURSIVE AllCondsTrue(_, _)
AllCondsTrue(search, rs) ==
    IF rs = <<>> THEN <<>>
    ELSE IF CondsHold(search, Head(rs)) THEN <<Head(rs)>> \o AllCondsTrue(search, Tail(rs))
    ELSE AllCondsTrue(search, Tail(rs))

\* C3: in a walk without a key and with conditions, a decoded leaf row is
\* emitted if and only if every condition evaluates true against it.  The
\* walks without a key are the walk of a query no index serves and the walk
\* of the table that ends an index walk.
AndSemantics ==
    \A k \in 1..Len(log) :
        (Undamaged /\ Walked(log[k]) /\ log[k].stmt.conds # <<>>
            /\ log[k].out.walk.st = "ok") =>
            LET search == log[k].out.search.v
                decoded == [i \in 1..Len(given.keys) |-> LogicalRow(given, i)]
            IN  /\ ~search.key.some =>
                     log[k].out.walk.rows = AllCondsTrue(search, decoded)
                /\ log[k].out.walk.rejoin.some =>
                     log[k].out.walk.rejoin.v.rows = AllCondsTrue(search, decoded)

\* The position of a column in the output of SELECT *.
PositionIn(header, name) == CHOOSE j \in 1..Len(header) : header[j] = name

\* C9: the output of SELECT x, y FROM t WHERE p is the projection onto
\* (x, y) of the output of SELECT * FROM t WHERE p, row for row.
ProjectionCommutes ==
    (/\ Len(log) = 2 /\ Undamaged
     /\ log[1].stmt.columns = All
     /\ log[2].stmt.columns.k = "Columns"
     /\ log[2].stmt.conds = log[1].stmt.conds) =>
        /\ log[1].out.st = "ok" /\ log[2].out.st = "ok"
        /\ log[2].out.header = log[2].stmt.columns.cols
        /\ log[2].out.count = log[1].out.count
        /\ \A i \in 1..log[1].out.count :
                \A j \in 1..Len(log[2].out.header) :
                    log[2].out.body[i][j] =
                        log[1].out.body[i][PositionIn(log[1].out.header, log[2].out.header[j])]

\* The rows of the table stored on page p of the undamaged file.
RowsOn(content, p) ==
    {i \in 1..Len(content.keys) :
        \E k \in 1..Len(FileOf(content).pages[p].cells) :
            FileOf(content).pages[p].cells[k].row_id = NatWord(i)}

\* C10: when get_page fails for a page below the root, that subtree gives no
\* rows, the walk goes on with the other subtrees and returns their rows,
\* and the program does not abort.
TraversalFailureContained ==
    \A k \in 1..Len(log) :
        (given.damage.some /\ Walked(log[k])) =>
            /\ log[k].out.st = "ok"
            /\ log[k].out.walk.rows =
                    ExpectedFrom(given, log[k].stmt.conds,
                                 RowsOn(given, given.damage.v.page), 1)

\* The condition given to eval is on column c and the row holds Null there.
OnNullColumn ==
    /\ given.called /\ "cond" \in DOMAIN given
    /\ given.cond.col = "c" /\ Len(given.row) > 1 /\ given.row[2] = Null

\* C13: on a column whose value is Null, eval returns true only for Eq with
\* the literal NULL; Ne, Less, LessEq, Greater, GreaterEq and Between return
\* false for every literal, NULL included.
NullPredicateRule ==
    (OnNullColumn /\ log # <<>>) =>
        /\ log[1].st = "ok"
        /\ log[1].ret = (given.cond.op = "Eq" /\ given.cond.val = NullWord)

\* A statement written from declarations has been parsed.
CreateParsed == given.called /\ "decls" \in DOMAIN given /\ log # <<>>

\* The positions of the PRIMARY KEY declarations.
PkPositions(decls) == {i \in 1..Len(decls) : decls[i].pk}

\* The Column c describes declaration i of decls.
Describes(c, decls, i) ==
    /\ c.name = decls[i].name
    /\ c.idx = i - 1
    /\ c.pk = decls[i].pk
    /\ c.nullable = (~decls[i].pk /\ ~decls[i].notnull)

\* C14 as stated: one Column per declared column, at its zero-based
\* position, nullable iff neither PRIMARY KEY nor NOT NULL, pk exactly for
\* the PRIMARY KEY columns, and key the name of the first PRIMARY KEY column
\* (None when there is none).
CreateTableFirstKey ==
    CreateParsed =>
        /\ log[1].ok
        /\ Cardinality(DOMAIN log[1].table.columns) = Len(given.decls)
        /\ \A i \in 1..Len(given.decls) :
              /\ given.decls[i].name \in DOMAIN log[1].table.columns
              /\ Describes(log[1].table.columns[given.decls[i].name], given.decls, i)
        /\ log[1].table.key =
              IF PkPositions(given.decls) = {} THEN None
              ELSE Some(given.decls[CHOOSE i \in PkPositions(given.decls) :
                                        \A j \in PkPositions(given.decls) : i <= j].name)

\* The last declaration of the name declared at position i.
LastOf(decls, i) ==
    CHOOSE k \in i..Len(decls) :
        /\ decls[k].name = decls[i].name
        /\ \A j \in (k + 1)..Len(decls) : decls[j].name # decls[i].name

\* C14: the Table has one Column per declared column name, describing the
\* last declaration of that name: idx is that declaration's zero-based
\* position, nullable iff it has neither PRIMARY KEY nor NOT NULL, pk iff it
\* has PRIMARY KEY; key is the name of the last PRIMARY KEY declaration
\* (None when there is none).
CreateTableLastKey ==
    CreateParsed =>
        /\ log[1].ok
        /\ DOMAIN log[1].table.columns = {given.decls[i].name : i \in 1..Len(given.decls)}
        /\ \A i \in 1..Len(given.decls) :
              Describes(log[1].table.columns[given.decls[i].name], given.decls,
                        LastOf(given.decls, i))
        /\ log[1].table.key =
              IF PkPositions(given.decls) = {} THEN None
              ELSE Some(given.decls[CHOOSE i \in PkPositions(given.decls) :
                                        \A j \in PkPositions(given.decls) : j <= i].name)

\* A statement with two PRIMARY KEY columns of different names was parsed
\* and the key is the second of them.
TwoPrimaryKeysParsed ==
    /\ CreateParsed
    /\ Len(given.decls) = 2
    /\ given.decls[1].pk /\ given.decls[2].pk
    /\ given.decls[1].name # given.decls[2].name
    /\ log[1].ok /\ log[1].table.key = Some(given.decls[2].name)

\* A walk of SpecWalk has run from the table's root.
TableWalked == given.called /\ "at" \in DOMAIN given /\ given.at = "table" /\ log # <<>>

\* The row ids of a walk's list, as a set of numbers.
IdSet(w) == {i \in 1..MaxRows : NatWord(i) \in Range(w.indeces.v)}

\* The leaf filter on row i of the walked table: the row-id list when set,
\* then the key when set and the conditions otherwise.
LeafRule(w, i) ==
    /\ w.indeces.some => i \in IdSet(w)
    /\ IF w.key.some THEN w.key.v = <<48 + i>>
       ELSE \A k \in 1..Len(w.conds) : Sat(w.content, i, w.conds[k])

RECURSIVE PrunedWalk(_, _, _)
RECURSIVE PrunedCells(_, _, _, _, _)

\* Two walks, one after the other.
WalkThen(a, b) == [rows |-> a.rows \o b.rows, fetched |-> a.fetched \o b.fetched]

\* Cell k of page p, with child the walk of its left child.
PrunedCell(file, w, p, k, acc, child) ==
    IF w.indeces.some /\ file.pages[p].cells[k].row_id \in Range(w.indeces.v)
    THEN [rows |-> child.rows, fetched |-> acc.fetched \o child.fetched]
    ELSE PrunedCells(file, w, p, k + 1, WalkThen(acc, child))

\* The TableInterior rule on page p from cell k on: each left child is
\* walked in order; a cell whose row id is in the list ends the page with
\* its child's rows alone; otherwise the rightmost child comes last.
PrunedCells(file, w, p, k, acc) ==
    IF k > Len(file.pages[p].cells)
    THEN WalkThen(acc, PrunedWalk(file, w, file.pages[p].rightmost_pointer))
    ELSE PrunedCell(file, w, p, k, acc,
                    PrunedWalk(file, w, file.pages[p].cells[k].left_child_page))

\* The row whose id a cell carries.
RowNumber(w, row_id) == CHOOSE i \in 1..Len(w.content.keys) : NatWord(i) = row_id

\* The row numbers a walk of the table from page p yields and the pages it
\* fetches, by the TableInterior rule and the leaf filter.
PrunedWalk(file, w, p) ==
    IF file.pages[p].kind = 13
    THEN [rows |-> SelectSeq([k \in 1..Len(file.pages[p].cells) |->
                                RowNumber(w, file.pages[p].cells[k].row_id)],
                             LAMBDA i : LeafRule(w, i)),
          fetched |-> <<p>>]
    ELSE PrunedCells(file, w, p, 1, [rows |-> <<>>, fetched |-> <<p>>])

\* The walk agrees with the rows and the pages pw.
WalkIs(walk, content, pw) ==
    /\ walk.st = "ok"
    /\ walk.rows = [k \in 1..Len(pw.rows) |-> LogicalRow(content, pw.rows[k])]
    /\ walk.fetched = pw.fetched

LeafWalkOf(w, Keeps(_)) ==
    [rows |-> SelectSeq([i \in 1..Len(w.content.keys) |-> i], Keeps), fetched |-> <<2>>]

\* The three filters as alternatives: the row-id list when set, else the
\* key when set, else the conditions.
AlternativesRule(w, i) ==
    IF w.indeces.some THEN i \in IdSet(w)
    ELSE IF w.key.some THEN w.key.v = <<48 + i>>
    ELSE \A k \in 1..Len(w.conds) : Sat(w.content, i, w.conds[k])

\* C16 as stated: on a TableLeaf page the filters are alternatives tried in
\* the order indeces, key, conds: with indeces set a row is kept iff its
\* row_id is in the list, and neither key nor conditions are consulted; with
\* indeces unset and key set, iff its first value prints as the key; the
\* conditions are evaluated only with both unset.
LeafFilterAlternatives ==
    (TableWalked /\ db.pages[2].kind = 13) =>
        WalkIs(log[1].walk, given.content,
               LeafWalkOf(given, LAMBDA i : AlternativesRule(given, i)))

\* C16: on a TableLeaf page the filters apply in the order indeces, key,
\* conds: with indeces set, a row whose row_id is not in the list is dropped;
\* a row that remains is kept, with key set, iff its first value prints as
\* the key (the conditions are not consulted), and with key unset iff every
\* condition is true of it, whether or not indeces is set.
LeafFilterInOrder ==
    (TableWalked /\ db.pages[2].kind = 13) =>
        WalkIs(log[1].walk, given.content, LeafWalkOf(given, LAMBDA i : LeafRule(given, i)))

\* A leaf was walked with a row-id list and conditions: a row of the list
\* was dropped for a condition and another row of the list was kept.
ListedRowDroppedByCondition ==
    /\ TableWalked /\ db.pages[2].kind = 13
    /\ given.indeces.some /\ ~given.key.some /\ given.conds # <<>>
    /\ log[1].walk.st = "ok"
    /\ \E i \in IdSet(given) \cap (1..Len(given.content.keys)) :
            /\ ~(\A k \in 1..Len(given.conds) : Sat(given.content, i, given.conds[k]))
            /\ LogicalRow(given.content, i) \notin Range(log[1].walk.rows)
    /\ \E j \in IdSet(given) \cap (1..Len(given.content.keys)) :
            LogicalRow(given.content, j) \in Range(log[1].walk.rows)

\* A walk of SpecWalk has run from the index's root.
IndexWalked == given.called /\ "at" \in DOMAIN given /\ given.at = "index" /\ log # <<>>

\* The IndexInterior pages of the file.
IndexInteriors == {p \in DOMAIN db.pages : db.pages[p].kind = 2}

\* The key of cell k of index page p: the c of the entry the cell holds.
SeparatorKey(p, k) ==
    given.content.keys[CHOOSE i \in 1..Len(given.content.keys) :
                          IndexEntry(given.content, i) = db.pages[p].cells[k].payload]

\* The pages a walk fetched.
FetchedPages == Range(log[1].walk.fetched)

\* C18: on an IndexInterior page the rightmost child is never descended and
\* a cell's left child is descended only when search_key <= the cell's key
\* and, for the cells after the first, the previous key <= search_key; a
\* search key greater than every separator key of the index root yields no
\* rows, and no page but the index root is fetched.
IndexInteriorKeyRange ==
    IndexWalked =>
        /\ log[1].walk.st = "ok"
        /\ \A p \in IndexInteriors \cap FetchedPages :
              /\ db.pages[p].rightmost_pointer \notin FetchedPages
              /\ \A k \in 1..Len(db.pages[p].cells) :
                    db.pages[p].cells[k].left_child_page \in FetchedPages =>
                        /\ StrLe(given.key.v, SeparatorKey(p, k))
                        /\ k > 1 => StrLe(SeparatorKey(p, k - 1), given.key.v)
        /\ (/\ IndexRoot \in IndexInteriors
            /\ \A k \in 1..Len(db.pages[IndexRoot].cells) :
                    StrLess(SeparatorKey(IndexRoot, k), given.key.v))
              => log[1].walk.rows = <<>> /\ log[1].walk.fetched = <<IndexRoot>>

\* The search key is the c of a row of the table and greater than every
\* separator of the IndexInterior root: the walk fetched the root alone and
\* returned no rows.
KeyPastLastSeparator ==
    /\ IndexWalked
    /\ IndexRoot \in IndexInteriors
    /\ \E i \in 1..Len(given.content.keys) : given.content.keys[i] = given.key.v
    /\ \A k \in 1..Len(db.pages[IndexRoot].cells) :
            StrLess(SeparatorKey(IndexRoot, k), given.key.v)
    /\ log[1].walk.rows = <<>>
    /\ log[1].walk.fetched = <<IndexRoot>>

\* The loop of the index root's walk, when the root is an IndexInterior page.
RootLoop == log[1].trace

InCatalogSession == "shape" \in DOMAIN given

\* The objects the catalogue of the session was written with.
Objects == ObjectsOf(given.shape, given.cap)

CatalogNames == {Objects[k].name : k \in 1..Len(Objects)}

\* C11: a Select whose table name is not in the catalogue fails with the
\* error 'no such table' returned to the caller: no page is fetched for it,
\* no rows and no count are produced, and the session goes on with the
\* database it had loaded.
NoSuchTable ==
    InCatalogSession =>
        /\ db = CatalogFile(given)
        /\ \A k \in 1..Len(log) :
              log[k].stmt.name \notin CatalogNames =>
                  log[k].out = [st |-> "err", msg |-> "no such table"]

\* A statement on a table the catalogue does not hold was answered with the
\* error, and the statement after it printed the rows of t.
SessionWentOnAfterNoSuchTable ==
    /\ InCatalogSession /\ Len(log) >= 2
    /\ log[1].stmt.name \notin CatalogNames
    /\ log[1].out = [st |-> "err", msg |-> "no such table"]
    /\ log[2].out.st = "ok" /\ log[2].out.kind = "rows" /\ log[2].out.count > 0

\* What a statement produced: its rows in order, its count, or how it ended.
Produced(e) ==
    IF e.out.st = "ok"
    THEN IF e.out.kind = "rows" THEN <<"rows", e.out.walk.rows>>
         ELSE <<"count", e.out.count>>
    ELSE <<e.out.st>>

\* C12: two executions of the same Select on the same unchanged file produce
\* the same rows in the same order, also when the queried column has more
\* than one single-column index, and whatever was run in between.
Determinism ==
    InCatalogSession =>
        \A j \in 1..Len(log) : \A k \in j..Len(log) :
            log[j].stmt = log[k].stmt => Produced(log[j]) = Produced(log[k])

\* The rootpage the catalogue holds for a name.
RootOf(name) ==
    (CHOOSE r \in Range(db.catalog) : r.name = name).rootpage

\* The indexes of the catalogue on a column of a table: those whose
\* statement the grammar parses, which are all on c.
IndexObjectsOn(target, col) ==
    {k \in 1..Len(Objects) :
        /\ Objects[k].stype = "index" /\ Objects[k].table_name = target
        /\ Objects[k].sql # DescIndexSql
        /\ col = "c"}

\* Condition i of a statement is an equality on a column of the table that
\* an index of the table is on.
Selects(stmt, i) ==
    /\ stmt.conds[i].op = "Eq"
    /\ stmt.conds[i].col \in {"id", "c", "d"}
    /\ IndexObjectsOn(stmt.name, stmt.conds[i].col) # {}

\* The Search of a statement that reached the walk.
SearchOf(e) == e.out.search.v

Searched(e) == e.out.st \in {"ok", "panic"} /\ "search" \in DOMAIN e.out /\ e.out.search.some

\* C17: find_table_index takes the first condition that is an equality on a
\* column of the table for which the catalogue holds an index of that table
\* whose CREATE INDEX names that column, and the walk starts at that index's
\* root with the condition's literal as key; other operators select no
\* index, an index whose statement does not parse counts as absent, and with
\* no such condition the walk starts at the table's root with key = None.
IndexSelection ==
    InCatalogSession =>
        \A k \in 1..Len(log) :
            Searched(log[k]) =>
                IF \E i \in 1..Len(log[k].stmt.conds) : Selects(log[k].stmt, i)
                THEN \E i \in 1..Len(log[k].stmt.conds) :
                        /\ Selects(log[k].stmt, i)
                        /\ \A j \in 1..(i - 1) : ~Selects(log[k].stmt, j)
                        /\ SearchOf(log[k]).key = Some(log[k].stmt.conds[i].val)
                        /\ SearchOf(log[k]).pgno \in
                              {RootOf(Objects[o].name) :
                                  o \in IndexObjectsOn(log[k].stmt.name,
                                                       log[k].stmt.conds[i].col)}
                ELSE /\ SearchOf(log[k]).key = None
                     /\ SearchOf(log[k]).pgno = RootOf(log[k].stmt.name)

\* The equality on the indexed column c came second, after a condition with
\* another operator, and its literal is the key of a walk from the index.
SecondConditionSelected ==
    /\ InCatalogSession /\ given.shape = "indexed" /\ log # <<>>
    /\ Searched(log[1])
    /\ Len(log[1].stmt.conds) = 2 /\ log[1].stmt.conds[1].op = "Less"
    /\ SearchOf(log[1]).key = Some(KeyA)
    /\ SearchOf(log[1]).pgno = RootOf("idx_t_c")

\* C20: SELECT count(*) fetches the table's root page alone and returns that
\* page's cell_count, whatever the page's kind, the tree's height and the
\* WHERE conditions; a rootpage of 0 in the catalogue gives the error
\* 'invalid table rootpage' instead.
CountPath ==
    InCatalogSession =>
        \A k \in 1..Len(log) :
            (log[k].stmt.columns = Count /\ log[k].stmt.name \in CatalogNames) =>
                IF RootOf(log[k].stmt.name) = 0
                THEN log[k].out = [st |-> "err", msg |-> "invalid table rootpage"]
                ELSE log[k].out =
                        [st |-> "ok", kind |-> "count",
                         count |-> Len(db.pages[RootOf(log[k].stmt.name)].cells),
                         fetched |-> <<RootOf(log[k].stmt.name)>>]

\* count(*) with conditions on a table whose root is a TableInterior page:
\* the count is the root's number of cells, not the table's number of rows.
CountedInteriorRoot ==
    /\ InCatalogSession /\ log # <<>>
    /\ log[1].stmt.columns = Count /\ log[1].stmt.conds # <<>> /\ log[1].stmt.name = "t"
    /\ RootOf("t") # 0 /\ db.pages[RootOf("t")].kind = 5
    /\ log[1].out.st = "ok"
    /\ log[1].out.count = Len(db.pages[RootOf("t")].cells)
    /\ log[1].out.count # Len(given.keys)

\* A SELECT's columns were resolved against a parsed Table.
Selected == given.called /\ "typed" \in DOMAIN given /\ Len(log) = 2

\* The requested names the table has, in the order requested.
RECURSIVE Present(_, _)
Present(cols, names) ==
    IF cols = <<>> THEN <<>>
    ELSE (IF Head(cols) \in names THEN <<Head(cols)>> ELSE <<>>) \o Present(Tail(cols), names)

\* C21: for SELECT * the projection is every column of the table once, in
\* ascending idx; for count(*) it is empty; for a list of names it is the
\* Column of every requested name the table has, in the order requested,
\* the names it does not have being dropped without an error.
ProjectionResolution ==
    Selected =>
        LET columns == log[1].table.columns
            sel == log[2].sel.columns
            got == log[2].columns
        IN  CASE sel.k = "All" ->
                    /\ Len(got) = Cardinality(DOMAIN columns)
                    /\ \A i \in 1..Len(got) :
                          got[i].name \in DOMAIN columns /\ got[i] = columns[got[i].name]
                    /\ \A i, j \in 1..Len(got) : i < j => got[i].idx < got[j].idx
              [] sel.k = "Count" -> got = <<>>
              [] OTHER ->
                    LET present == Present(sel.cols, DOMAIN columns)
                    IN  /\ Len(got) = Len(present)
                        /\ \A i \in 1..Len(got) : got[i] = columns[present[i]]

\* a, z, c was asked of a table that declares c before a and has no z: the
\* projection is a then c.
UnknownNameDropped ==
    /\ Selected
    /\ log[2].sel.columns = Columns(<<"a", "z", "c">>)
    /\ Len(log[2].columns) = 2
    /\ log[2].columns[1].name = "a" /\ log[2].columns[2].name = "c"
    /\ log[2].columns[2].idx < log[2].columns[1].idx

\* A statement written from typed declarations has been parsed.
TableParsed == given.called /\ "typed" \in DOMAIN given /\ log # <<>>

\* C23: the statement is parsed whatever its type tokens are, and every
\* column has the cell type of its type token: Integer, Float, Text, Blob
\* for integer, float, text, blob and Null for any other token.
DdlColumnTypes ==
    TableParsed =>
        /\ log[1].ok
        /\ \A i \in 1..Len(given.typed) :
              /\ given.typed[i].name \in DOMAIN log[1].table.columns
              /\ log[1].table.columns[given.typed[i].name].cell_type =
                    CellTypeFromStr(given.typed[LastOf(given.typed, i)].type)

\* -2^47 and 2^47 - 1 as i64
MinI48 == [i \in 1..W64 |-> IF i <= 17 THEN 1 ELSE 0]
MaxI48 == [i \in 1..W64 |-> IF i <= 17 THEN 0 ELSE 1]

\* C25: serial type 5 consumes exactly six body bytes and yields the 48-bit
\* big-endian two's complement number sign-extended to i64: the result lies
\* in [-2^47, 2^47 - 1], its low 48 bits are the six bytes, and its top 16
\* bits are all ones iff the high bit of the first byte is set (all zeros
\* otherwise).
SixByteInteger ==
    (recOut.called /\ recOut.op = "value" /\ recIn.types = <<5>> /\ Len(recIn.body) >= 6) =>
        /\ recOut.ret.ok
        /\ recOut.ret.rest = SubSeq(recIn.body, 7, Len(recIn.body))
        /\ recOut.ret.val.t = "Integer"
        /\ LET x == recOut.ret.val.v
           IN  /\ ~ILess(x, MinI48) /\ ~ILess(MaxI48, x)
               /\ Slice(x, 17, W64) = BitsOfBytes(SubSeq(recIn.body, 1, 6))
               /\ (\A i \in 1..16 : x[i] = 1) <=> recIn.body[1] >= 128
               /\ (\A i \in 1..16 : x[i] = 0) <=> recIn.body[1] < 128

\* The six bytes 80 00 00 00 00 00 followed by one more byte were decoded
\* to -2^47, the byte after them left over.
SixByteMinimumDecoded ==
    /\ recOut.called /\ recOut.op = "value" /\ recIn.types = <<5>>
    /\ recIn.body = <<128, 0, 0, 0, 0, 0, 170>>
    /\ recOut.ret.ok /\ recOut.ret.val = Integer(MinI48) /\ recOut.ret.rest = <<170>>

\* The statement of SpecSelect was parsed as written and with AND.
WhereParsed == given.called /\ "where" \in DOMAIN given /\ Len(log) >= 2

Routes == Len(log') = Len(log) + 1
Entry == log'[Len(log')]

\* The Load of entry e loaded its database.
Loaded(e) == e.command.k = "Load" /\ e.out = ilog("Sucessfully loaded")

\* A query or a read of the catalogue comes after a Load that succeeded.
ReadsFollowLoad ==
    \A i \in 1..Len(log) :
        (log[i].query.some \/ log[i].catalogue) => \E j \in 1..(i - 1) : Loaded(log[j])

\* While App.db is None a Sql or Dot command reports the message, runs no
\* query, reads no catalogue and leaves db and is_running as they were.
UnloadedStep ==
    (Routes /\ db = None /\ Entry.command.k \in {"Sql", "Dot"}) =>
        /\ Entry.out = elog("Please, load a database first")
        /\ Entry.query = None /\ ~Entry.catalogue /\ ~Entry.panicked
        /\ db' = db /\ given'.is_running = given.is_running

\* C28: a Sql or Dot command reads the database only if an earlier Load
\* succeeded: while App.db is None, routing Command::Sql or Command::Dot
\* reports "Please, load a database first", performs no query or catalogue
\* read, and leaves App.db and is_running unchanged.
LoadFirst == []ReadsFollowLoad /\ [][UnloadedStep]_vars

\* A statement was routed before any database was loaded and after it the
\* database was loaded and the statement run.
RefusedThenLoaded ==
    /\ given.called /\ "is_running" \in DOMAIN given /\ Len(log) = 3
    /\ log[1].command.k = "Sql" /\ log[1].out = elog("Please, load a database first")
    /\ Loaded(log[2])
    /\ log[3].command = log[1].command /\ log[3].query.some /\ log[3].query.v.st = "ok"
    /\ given.is_running

\* A Load that fails leaves App.db as it was and the App running on it;
\* App.db changes only in a Load that succeeds; is_running becomes false
\* only in Command::Quit.
LoadStep ==
    /\ (Routes /\ Entry.command.k = "Load" /\ ~Loaded(Entry)) =>
            db' = db /\ ~Entry.panicked
    /\ db' # db => Routes /\ Loaded(Entry)
    /\ (given.is_running /\ ~given'.is_running) => Routes /\ Entry.command.k = "Quit"

\* C29: a Load that fails (the file cannot be opened, or Database::new
\* fails on the header or the first page) leaves App.db exactly as it was,
\* so that a database loaded before stays usable; only a successful Load
\* replaces App.db, and only Command::Quit sets is_running to false.
FailedLoadKeepsDb == [][LoadStep]_vars

\* The cells of a written page were read.
CellsRead == given.called /\ "written" \in DOMAIN given /\ log # <<>>

\* The Cell that parse_cell is to give for a written cell of the kind.
CellWritten(kind, c) ==
    CASE kind = "TableLeaf" ->
            [kind |-> kind, row_id |-> c.row_id,
             payload |-> [size |-> NatWord(Len(c.payload)), payload |-> c.payload,
                          overflow |-> None]]
      [] kind = "TableInterior" ->
            [kind |-> kind, left_child_page |-> c.left_child_page, row_id |-> c.row_id]
      [] kind = "IndexLeaf" ->
            [kind |-> kind,
             payload |-> [size |-> NatWord(Len(c.payload)), payload |-> c.payload,
                          overflow |-> None]]
      [] OTHER ->
            [kind |-> kind, left_child_page |-> c.left_child_page,
             payload |-> [size |-> NatWord(Len(c.payload)), payload |-> c.payload,
                          overflow |-> None]]

\* C22: cells() reads the pointer array at byte 108 of page 1, at byte 12
\* of any other interior page and at byte 8 of any other leaf page, and
\* yields the cells in the order of the array: on a page whose cells all
\* parse, exactly cell_count cells, each the cell of the page's kind that
\* lies at the offset the array records for it.
PageCellIteration ==
    (CellsRead /\ (~given.written.cut \/ given.written.cells = <<>>)) =>
        /\ log[1].st = "ok"
        /\ Len(log[1].cells) = Len(given.written.cells)
        /\ \A i \in 1..Len(log[1].cells) :
              log[1].cells[i] = CellWritten(given.written.kind, given.written.cells[i])

\* Page 1 with two different cells that lie on the page against the order
\* of the array was read: the cells come in the order of the array.
FirstPageCellsRead ==
    /\ CellsRead
    /\ given.written.page_id = 1 /\ given.written.reversed /\ ~given.written.cut
    /\ Len(given.written.cells) = 2
    /\ given.written.cells[1].row_id = NatWord(200)
    /\ given.written.cells[2].row_id = NatWord(1)
    /\ log[1].st = "ok" /\ Len(log[1].cells) = 2
    /\ log[1].cells[1].row_id = NatWord(200) /\ log[1].cells[2].row_id = NatWord(1)

\* The rows of table t as a reader of the table decodes them.
TableRows == {LogicalRow(given.content, i) : i \in 1..Len(given.content.keys)}

\* C26: every row a walk returns that started at the index root with the
\* key set is a row decoded from a TableLeaf cell of the table; no index
\* entry (key, row id) is part of the result, whatever the height of the
\* index.
IndexRowsAreTableRows ==
    (IndexWalked /\ log[1].walk.st = "ok") =>
        \A k \in 1..Len(log[1].walk.rows) : log[1].walk.rows[k] \in TableRows

\* The row-id list the walk of the index root handed to the table walk.
Rejoined == IndexWalked /\ log[1].walk.st = "ok" /\ log[1].walk.rejoin.some
Indeces == log[1].walk.rejoin.v.indeces

\* C27: the row-id list an IndexInterior page hands to the table walk is
\* in non-decreasing order, so that membership by binary_search, as the
\* TableInterior pages test it, agrees with membership by contains, as the
\* TableLeaf pages test it, for every row id of the table.
RejoinListSorted ==
    Rejoined =>
        /\ \A i \in 1..(Len(Indeces) - 1) : ~ULess(Indeces[i + 1], Indeces[i])
        /\ \A n \in 0..(Len(given.content.keys) + 1) :
              binary_search(Indeces, NatWord(n)) <=> contains(Indeces, NatWord(n))

(***************************************************************************)
(* C24                                                                     *)
(***************************************************************************)
TableKinds == {5, 13}

\* The page kind byte of the page a call of rows is on.
KindOf(frame) == db.pages[frame.search.pgno].kind

\* The children of a page.
ChildrenOf(file, pgno) ==
    ({file.pages[pgno].cells[k].left_child_page : k \in 1..Len(file.pages[pgno].cells)}
        \cup {file.pages[pgno].rightmost_pointer}) \ {0}

\* The height of the tree under a page: a leaf's is one.
RECURSIVE TreeHeight(_, _)
TreeHeight(file, pgno) ==
    IF ChildrenOf(file, pgno) = {} THEN 1
    ELSE LET hs == {TreeHeight(file, c) : c \in ChildrenOf(file, pgno)}
         IN  1 + CHOOSE h \in hs : \A g \in hs : g <= h

Calls == 2..Len(log)

\* The calls of rows on table pages are no more than the table's height.
TableDepthBounded ==
    Cardinality({k \in Calls : KindOf(log[k]) \in TableKinds})
        <= TreeHeight(db, get_schemas(db)["t"].rootpage)

\* A call on an index page walks the table at most once, and the walks of
\* the table are no more than the IndexInterior pages fetched.
JoinedOnce ==
    /\ \A k \in Calls : log[k].joins <= 1
    /\ Len(log) > 0 =>
          log[1].joins <= Cardinality({j \in 1..Len(log[1].fetched) :
                                          db.pages[log[1].fetched[j]].kind = 2})

\* A call on a table page calls rows on table pages only.
NoIndexFromTable ==
    \A k \in Calls : k < Len(log) /\ KindOf(log[k]) \in TableKinds =>
        KindOf(log[k + 1]) \in TableKinds

WalkDone == Len(log) = 1 /\ log[1].at = "done"

\* The pages of the tree under a page.
RECURSIVE TreePages(_, _)
TreePages(file, pgno) ==
    {pgno} \cup UNION {TreePages(file, c) : c \in ChildrenOf(file, pgno)}

TablePagesOf(file) == TreePages(file, get_schemas(file)["t"].rootpage)

IndexPagesOf(file) ==
    IF "idx_t_c" \in DOMAIN get_schemas(file)
    THEN TreePages(file, get_schemas(file)["idx_t_c"].rootpage)
    ELSE {}

\* The calls of rows a walk may make: a page of the tree it starts in is
\* fetched once, and the table's pages once more for every IndexInterior
\* page.
CallBound(file) ==
    Cardinality(TablePagesOf(file)) + Cardinality(IndexPagesOf(file))
    + Cardinality({p \in IndexPagesOf(file) : file.pages[p].kind = 2})
        * Cardinality(TablePagesOf(file))

\* The steps one call of rows takes at most: the fetch, one for every cell,
\* one past the last cell, the join and the return.
CallSteps(file) ==
    LET ns == {Len(file.pages[p].cells) + 4 : p \in DOMAIN file.pages}
    IN  CHOOSE n \in ns : \A m \in ns : m <= n

\* The walk ends: its calls and its steps are bounded by the size of the
\* file, and until it has returned to its caller its innermost call is at
\* a position from which it goes on.
WalkEnds ==
    Len(log) > 0 =>
        /\ Len(log[1].fetched) <= CallBound(db)
        /\ log[1].steps <= Len(log[1].fetched) * CallSteps(db)
        /\ IF Len(log) = 1 THEN log[1].at = "done"
           ELSE /\ Top.at \in {"get_page", "cells", "join", "return"}
                /\ \A k \in 1..(Len(log) - 1) :
                      log[k].at \in {"run", "pruned", "cell", "rightmost", "range",
                                     "first", "joined"}

\* The call by call walk returns what rows returns and fetches what it
\* fetches.
StackAgrees ==
    WalkDone =>
        LET r == rows(db, SearchAt(db, get_schemas(db)[IF given.at = "table" THEN "t"
                                                       ELSE "idx_t_c"].rootpage, given))
        IN  r.st = "ok" /\ log[1].rows = r.rows /\ log[1].fetched = r.fetched

\* C24: on a well-formed file every call of Database::rows returns, after
\* a number of calls and steps bounded by the size of the file; at any
\* moment the calls of rows on table pages are no more than the height of
\* the table's tree, a call on an IndexInterior page walks the table from
\* its root at most once, and no call on a table page calls rows on an
\* index page.
Termination == WalkEnds /\ TableDepthBounded /\ JoinedOnce /\ NoIndexFromTable

\* A walk of an index of three levels has returned: the table, of more
\* than one level, was walked from its root more than once.
DeepWalkReturned ==
    /\ WalkDone /\ given.at = "index"
    /\ log[1].joins > 1
    /\ TreeHeight(db, get_schemas(db)["t"].rootpage) > 2
    /\ TreeHeight(db, get_schemas(db)["idx_t_c"].rootpage) > 2

====
